---------------------------- MODULE Spec2Model ----------------------------
(***************************************************************************)
(* Model of PBToolkit/Source Files/Python/extract_aicodebase.py.           *)
(*                                                                         *)
(* Text is modelled the way str.split("\n") sees it: a text is a non-empty *)
(* sequence of lines, a line is a sequence of tokens.  A token is either   *)
(* one whitespace character, one punctuation character or a word (a run of *)
(* word characters); two adjacent word tokens stand for the text obtained  *)
(* by writing them without a separator.  The token alphabet is a code: no  *)
(* token is a concatenation of other tokens, so a token sequence and the   *)
(* character string it stands for determine each other.                    *)
(*                                                                         *)
(* File-system names are token sequences as well, so that sanitize() and   *)
(* lower() can be computed on them.                                        *)
(***************************************************************************)
EXTENDS Integers, Sequences, FiniteSets, TLC

VARIABLES
    content,    \* SpecSplit: the text handed to split_object_members
    split,      \* SpecSplit: its result, or NoResult before the call
    fpIn,       \* SpecFp: two library source directories and the order in
                \*         which the directory walk returns the files of each
    fpOut,      \* SpecFp: the two fingerprints, or NoResult before the calls
    nt,         \* Spec: os.name == "nt"
    mklink,     \* Spec: cmd's mklink /J succeeds on this volume when dest is free
    mirror,     \* Spec: Mirror/<version>: .pbw path -> library file names
    sources,    \* Spec, SpecBuild: Sources/<version>: library directory -> its files
    fs,         \* Spec, SpecBuild: the output tree <output_root>/<version>
    pc,         \* Spec: where main() stands; SpecBuild: changed or built
    run,        \* Spec: the locals of the current (or last) run of main()
    hist,       \* Spec: history kept for the properties
    call        \* SpecExit: one call of main(argv): the loop over VERSIONS and
                \*           the status it returns

vars == <<content, split, fpIn, fpOut, nt, mklink, mirror, sources, fs, pc, run, hist, call>>

NoResult == [done |-> FALSE]

NoCall == [phase |-> "off"]

(***************************************************************************)
(* Generic helpers on sequences.                                           *)
(***************************************************************************)
RECURSIVE SeqsUpTo(_, _)
SeqsUpTo(S, n) ==
    IF n = 0 THEN {<<>>}
    ELSE LET shorter == SeqsUpTo(S, n - 1)
         IN  shorter \cup {Append(s, x) : s \in {t \in shorter : Len(t) = n - 1}, x \in S}

Range(s) == {s[i] : i \in 1..Len(s)}

RECURSIVE Concat(_)
Concat(ss) == IF ss = <<>> THEN <<>> ELSE Head(ss) \o Concat(Tail(ss))

(***************************************************************************)
(* Characters and tokens.                                                  *)
(***************************************************************************)
WsTokens == {" "}
PunctTokens == {"(", ")", ".", ";"}
SpecialTokens == {"?"}

IsWs(t) == t \in WsTokens
IsWord(t) == t \notin WsTokens \cup PunctTokens \cup SpecialTokens

\* str.lower() on one token
Lower(t) ==
    CASE t = "END" -> "end"
      [] t = "Function" -> "function"
      [] t = "A" -> "a"
      [] t = "P" -> "p"
      [] t = "SELECT" -> "select"
      [] OTHER -> t

LowerName(n) == [i \in 1..Len(n) |-> Lower(n[i])]

Kinds == {"function", "subroutine", "event"}
Modifiers == {"public", "private", "protected"}

\* str.lstrip() / str.rstrip() / str.strip() on one line
RECURSIVE LStripLine(_)
LStripLine(l) == IF l # <<>> /\ IsWs(Head(l)) THEN LStripLine(Tail(l)) ELSE l

RECURSIVE RStripLine(_)
RStripLine(l) ==
    IF l # <<>> /\ IsWs(l[Len(l)]) THEN RStripLine(SubSeq(l, 1, Len(l) - 1)) ELSE l

StripLine(l) == RStripLine(LStripLine(l))

IsBlankLine(l) == StripLine(l) = <<>>

(***************************************************************************)
(* str.strip() on a whole text: whitespace, newlines included, is removed  *)
(* from both ends.  "" is the text of one empty line.                      *)
(***************************************************************************)
RECURSIVE LStripText(_)
LStripText(t) ==
    IF Len(t) > 1 /\ IsBlankLine(Head(t)) THEN LStripText(Tail(t))
    ELSE <<LStripLine(Head(t))>> \o Tail(t)

RECURSIVE RStripText(_)
RStripText(t) ==
    IF Len(t) > 1 /\ IsBlankLine(t[Len(t)]) THEN RStripText(SubSeq(t, 1, Len(t) - 1))
    ELSE SubSeq(t, 1, Len(t) - 1) \o <<RStripLine(t[Len(t)])>>

StripText(t) == RStripText(LStripText(t))

EmptyText == << <<>> >>

\* "\n".join(lines): a text; joining no line gives ""
JoinLines(ls) == IF ls = <<>> THEN EmptyText ELSE ls

\* text + "\n"
AddNewline(t) == Append(t, <<>>)


(***************************************************************************)
(* sanitize(): strip, special characters and whitespace runs to "_", runs  *)
(* of "_" to one "_", then "_" stripped from both ends.                    *)
(***************************************************************************)
RECURSIVE CollapseUnderscores(_)
CollapseUnderscores(n) ==
    IF Len(n) < 2 THEN n
    ELSE IF n[1] = "_" /\ n[2] = "_" THEN CollapseUnderscores(Tail(n))
    ELSE <<n[1]>> \o CollapseUnderscores(Tail(n))

RECURSIVE StripUnderscores(_)
StripUnderscores(n) ==
    IF n # <<>> /\ Head(n) = "_" THEN StripUnderscores(Tail(n))
    ELSE IF n # <<>> /\ n[Len(n)] = "_" THEN StripUnderscores(SubSeq(n, 1, Len(n) - 1))
    ELSE n

sanitize(name) ==
    LET stripped == StripLine(name)
        replaced == [i \in 1..Len(stripped) |->
                        IF stripped[i] \in SpecialTokens \/ IsWs(stripped[i])
                        THEN "_" ELSE stripped[i]]
    IN  StripUnderscores(CollapseUnderscores(replaced))

(***************************************************************************)
(* MEMBER_START_RE:                                                        *)
(*   ^\s*(public|private|protected)?\s*(function|subroutine|event)\s+(.+?)\s*$ *)
(* matched from the start of the line, case-insensitively.  After the kind *)
(* keyword at least one whitespace character and one more character of any *)
(* sort must follow.  The result carries group 2 and group 3.              *)
(***************************************************************************)
NoMatch == [ok |-> FALSE, kind |-> "", sig |-> <<>>]

MatchKindAndRest(l) ==
    IF l # <<>> /\ Lower(Head(l)) \in Kinds
          /\ Len(l) >= 3 /\ IsWs(l[2])
    THEN [ok |-> TRUE, kind |-> Head(l),
          sig |-> LET rest == LStripLine(Tail(l))
                  IN  IF rest = <<>> THEN <<l[Len(l)]>> ELSE RStripLine(rest)]
    ELSE NoMatch

MEMBER_START_RE(line) ==
    LET l == LStripLine(line)
    IN  IF l # <<>> /\ Lower(Head(l)) \in Modifiers
        THEN MatchKindAndRest(LStripLine(Tail(l)))
        ELSE MatchKindAndRest(l)

(***************************************************************************)
(* MEMBER_END_RE and END_ANY_RE (the same pattern):                        *)
(*   ^\s*end\s+(function|subroutine|event)\b                               *)
(***************************************************************************)
MatchEndKind(l, kinds) ==
    IF l # <<>> /\ Lower(Head(l)) = "end" /\ Len(l) >= 3 /\ IsWs(l[2])
    THEN LET rest == LStripLine(Tail(l))
         IN  IF rest # <<>> /\ Lower(Head(rest)) \in kinds
                   /\ (Len(rest) = 1 \/ ~IsWord(rest[2]))
             THEN [ok |-> TRUE, kind |-> Head(rest), sig |-> <<>>]
             ELSE NoMatch
    ELSE NoMatch

MEMBER_END_RE(line) == MatchEndKind(LStripLine(line), Kinds)

END_ANY_RE(line) == MatchEndKind(LStripLine(line), Kinds)

(***************************************************************************)
(* normalize_member_name(): re.findall(r"[A-Za-z_]\w*", signature) gives   *)
(* the maximal runs of word tokens; the second one names a function, the   *)
(* first one a subroutine or an event.                                     *)
(***************************************************************************)
RECURSIVE IdentTokens(_)
IdentTokens(sig) ==
    IF sig = <<>> THEN <<>>
    ELSE IF ~IsWord(Head(sig)) THEN IdentTokens(Tail(sig))
    ELSE LET n == CHOOSE k \in 1..Len(sig) :
                     /\ \A i \in 1..k : IsWord(sig[i])
                     /\ (k = Len(sig) \/ ~IsWord(sig[k + 1]))
         IN  <<SubSeq(sig, 1, n)>> \o IdentTokens(SubSeq(sig, n + 1, Len(sig)))

\* mutant of normalize_member_name: the first identifier names every kind
normalize_member_nameFirstToken(kind, signature) ==
    LET tokens == IdentTokens(signature)
        kind_l == Lower(kind)
        name == IF tokens # <<>> THEN tokens[1] ELSE <<"unknown">>
    IN  sanitize(<<kind_l, "_">> \o name)

normalize_member_name(kind, signature) ==
    LET tokens == IdentTokens(signature)
        kind_l == Lower(kind)
        name == IF kind_l = "function"
                THEN IF Len(tokens) >= 2 THEN tokens[2]
                     ELSE IF tokens # <<>> THEN tokens[1] ELSE <<"unknown">>
                ELSE IF tokens # <<>> THEN tokens[1] ELSE <<"unknown">>
    IN  sanitize(<<kind_l, "_">> \o name)

(***************************************************************************)
(* split_object_members(): one pass over the lines with the flag in_member.*)
(***************************************************************************)
SplitInit ==
    [header_lines |-> <<>>, members |-> <<>>, in_member |-> FALSE,
     member_kind |-> "", member_sig |-> <<>>, member_buf |-> <<>>, pre_buf |-> <<>>]

flush_member(st) ==
    [st EXCEPT
        !.members = IF st.member_buf # <<>>
                    THEN Append(st.members,
                           [fname |-> normalize_member_name(st.member_kind, st.member_sig)
                                        \o <<".txt">>,
                            text |-> AddNewline(StripText(JoinLines(st.member_buf)))])
                    ELSE st.members,
        !.member_kind = "",
        !.member_sig = <<>>,
        !.member_buf = <<>>]

SplitLine(st, line) ==
    LET m == MEMBER_START_RE(line)
    IN  IF ~st.in_member /\ m.ok
        THEN [st EXCEPT !.header_lines = st.header_lines \o st.pre_buf,
                        !.pre_buf = <<>>,
                        !.member_kind = Lower(m.kind),
                        !.member_sig = StripLine(m.sig),
                        !.in_member = TRUE,
                        !.member_buf = <<line>>]
        ELSE IF st.in_member
        THEN LET appended == [st EXCEPT !.member_buf = Append(st.member_buf, line)]
             IN  IF MEMBER_END_RE(line).ok
                 THEN [flush_member(appended) EXCEPT !.in_member = FALSE]
                 ELSE appended
        ELSE [st EXCEPT !.pre_buf = Append(st.pre_buf, line)]

RECURSIVE SplitLoop(_, _)
SplitLoop(st, lines) ==
    IF lines = <<>> THEN st ELSE SplitLoop(SplitLine(st, Head(lines)), Tail(lines))

\* mutant of SplitFinish: the lines after the last member are not flushed
SplitFinishDropsTail(st) ==
    LET flushed == IF st.in_member THEN flush_member(st) ELSE st
        header_text == StripText(JoinLines(flushed.header_lines))
    IN  [done |-> TRUE,
         header |-> IF header_text # EmptyText THEN AddNewline(header_text) ELSE header_text,
         members |-> flushed.members]

SplitFinish(st) ==
    LET flushed == IF st.in_member THEN flush_member(st) ELSE st
        header_lines == flushed.header_lines \o flushed.pre_buf
        header_text == StripText(JoinLines(header_lines))
    IN  [done |-> TRUE,
         header |-> IF header_text # EmptyText THEN AddNewline(header_text) ELSE header_text,
         members |-> flushed.members]

split_object_members(text) == SplitFinish(SplitLoop(SplitInit, text))

(***************************************************************************)
(* strip_member_wrappers(): drop the first line, trailing blank lines, one *)
(* closing "end <kind>" line if it is now the last line, trailing blank    *)
(* lines again.                                                            *)
(***************************************************************************)
RECURSIVE PopBlankLines(_)
PopBlankLines(lines) ==
    IF lines # <<>> /\ IsBlankLine(lines[Len(lines)])
    THEN PopBlankLines(SubSeq(lines, 1, Len(lines) - 1))
    ELSE lines

\* mutant of strip_member_wrappers: a closing line of any kind is removed
strip_member_wrappersAnyKind(member_text, kind) ==
    LET popped == PopBlankLines(Tail(member_text))
        unclosed == IF popped # <<>>
                       /\ MatchEndKind(LStripLine(popped[Len(popped)]), Kinds).ok
                    THEN SubSeq(popped, 1, Len(popped) - 1)
                    ELSE popped
        lines == PopBlankLines(unclosed)
    IN  IF lines # <<>> THEN AddNewline(lines) ELSE EmptyText

strip_member_wrappers(member_text, kind) ==
    LET popped == PopBlankLines(Tail(member_text))
        unclosed == IF popped # <<>>
                       /\ MatchEndKind(LStripLine(popped[Len(popped)]), {kind}).ok
                    THEN SubSeq(popped, 1, Len(popped) - 1)
                    ELSE popped
        lines == PopBlankLines(unclosed)
    IN  IF lines # <<>> THEN AddNewline(lines) ELSE EmptyText

\* infer_kind_from_filename(): from the prefix of the artifact name
infer_kind_from_filename(fname) ==
    IF Len(fname) >= 2 /\ Lower(fname[1]) = "function" /\ fname[2] = "_" THEN "function"
    ELSE IF Len(fname) >= 2 /\ Lower(fname[1]) = "event" /\ fname[2] = "_" THEN "event"
    ELSE "subroutine"

(***************************************************************************)
(* extract_single_member_body_if_any(): the last line matching END_ANY_RE, *)
(* the nearest line above it that starts a member of that kind (global     *)
(* accepted as a modifier), and the lines strictly between the two.        *)
(***************************************************************************)
NoBody == [found |-> FALSE]

\* ^\s*(global|public|private|protected)?\s*<kind>\s+(.+?)\s*$
StartOfKind(line, kind) ==
    LET l == LStripLine(line)
        m == IF l # <<>> /\ Lower(Head(l)) \in Modifiers \cup {"global"}
             THEN MatchKindAndRest(LStripLine(Tail(l)))
             ELSE MatchKindAndRest(l)
    IN  m.ok /\ Lower(m.kind) = kind

\* mutant of extract_single_member_body_if_any: the first opener of the
\* kind above the closing line is taken instead of the nearest
extract_single_member_body_FirstOpener(text) ==
    LET ends == {i \in 1..Len(text) : END_ANY_RE(text[i]).ok}
    IN  IF ends = {} THEN NoBody
        ELSE LET end_idx == CHOOSE i \in ends : \A j \in ends : j <= i
                 kind == Lower(END_ANY_RE(text[end_idx]).kind)
                 starts == {j \in 1..(end_idx - 1) : StartOfKind(text[j], kind)}
             IN  IF starts = {} THEN NoBody
                 ELSE LET start_idx == CHOOSE j \in starts : \A k \in starts : j <= k
                          body == StripText(JoinLines(SubSeq(text, start_idx + 1, end_idx - 1)))
                      IN  [found |-> TRUE,
                           body |-> IF body # EmptyText THEN AddNewline(body) ELSE body]

extract_single_member_body_if_any(text) ==
    LET ends == {i \in 1..Len(text) : END_ANY_RE(text[i]).ok}
    IN  IF ends = {} THEN NoBody
        ELSE LET end_idx == CHOOSE i \in ends : \A j \in ends : j <= i
                 kind == Lower(END_ANY_RE(text[end_idx]).kind)
                 starts == {j \in 1..(end_idx - 1) : StartOfKind(text[j], kind)}
             IN  IF starts = {} THEN NoBody
                 ELSE LET start_idx == CHOOSE j \in starts : \A k \in starts : k <= j
                          body == StripText(JoinLines(SubSeq(text, start_idx + 1, end_idx - 1)))
                      IN  [found |-> TRUE,
                           body |-> IF body # EmptyText THEN AddNewline(body) ELSE body]

(***************************************************************************)
(* SpecSplit: split_object_members applied to every text of at most        *)
(* MaxLines lines drawn from SplitLines.                                   *)
(***************************************************************************)
MaxLines == 3

SplitLines ==
    { <<>>,
      <<" ">>,
      <<"x">>,
      <<" ", "x", " ">>,
      <<"function", " ", "void", " ", "f", "(", ")">>,
      <<" ", "public", " ", "Function", " ", "g">>,
      <<"subroutine", " ", "f">>,
      <<"global", " ", "function", " ", "f">>,
      <<"end", " ", "function">>,
      <<" ", "END", " ", "subroutine", " ">>,
      <<"global", " ", "public", " ", "function", " ", "f">>,
      <<"function", " ", "void", " ", "of", "_", "test", "(", "integer", " ", "a", ")">>,
      <<" ", " ", "return">> }

SplitTexts == SeqsUpTo(SplitLines, MaxLines) \ {<<>>}

SplitStart ==
    /\ content \in SplitTexts
    /\ split = NoResult
    /\ fpIn = <<>>
    /\ fpOut = NoResult
    /\ nt = FALSE
    /\ mklink = FALSE
    /\ mirror = <<>>
    /\ sources = <<>>
    /\ fs = <<>>
    /\ pc = "off"
    /\ run = [status |-> "none"]
    /\ hist = <<>>
    /\ call = NoCall

DoSplit ==
    /\ ~split.done
    /\ split' = split_object_members(content)
    /\ UNCHANGED <<content, fpIn, fpOut, nt, mklink, mirror, sources, fs, pc, run, hist, call>>

SplitNext == DoSplit

SpecSplit == SplitStart /\ [][SplitNext]_vars

(***************************************************************************)
(* The lines of a text as str.splitlines() gives them: a final newline     *)
(* ends the last line, it does not start another one.                      *)
(***************************************************************************)
TextLines(t) ==
    IF t = EmptyText THEN <<>>
    ELSE IF t[Len(t)] = <<>> THEN SubSeq(t, 1, Len(t) - 1)
    ELSE t

\* what the splitter does to the lines outside members, and to one member block
TrimmedHeader(ls) ==
    LET t == StripText(JoinLines(ls))
    IN  IF t # EmptyText THEN AddNewline(t) ELSE t

TrimmedBlock(ls) == AddNewline(StripText(JoinLines(ls)))

(***************************************************************************)
(* input is cut into runs h0 b1 h1 ... bk hk, the b's non-empty, such that *)
(* h0 h1 ... hk is the header and bi the i-th block: as they stand, or     *)
(* (trim) after the trimming the splitter applies.                         *)
(***************************************************************************)
RECURSIVE Decomposes(_, _, _, _, _)
Decomposes(input, acc, header, blocks, trim) ==
    IF blocks = <<>>
    THEN header = IF trim THEN TrimmedHeader(acc \o input) ELSE acc \o input
    ELSE \E i \in 0..Len(input) : \E j \in (i + 1)..Len(input) :
            /\ Head(blocks) = IF trim THEN TrimmedBlock(SubSeq(input, i + 1, j))
                              ELSE SubSeq(input, i + 1, j)
            /\ Decomposes(SubSeq(input, j + 1, Len(input)),
                          acc \o SubSeq(input, 1, i), header, Tail(blocks), trim)

MemberTexts(r) == [i \in 1..Len(r.members) |-> r.members[i].text]

\* C1 as stated: the header lines and the member blocks' lines, put back in
\* their original order, are exactly the lines of the input, none dropped,
\* altered or duplicated, the blocks being in file order.
C1_LosslessSplit ==
    split.done =>
        Decomposes(TextLines(content), <<>>, TextLines(split.header),
                   [i \in 1..Len(split.members) |-> TextLines(split.members[i].text)],
                   FALSE)

\* C1 amended: the same, up to the whitespace the splitter trims from both
\* ends of the header text and of each member block: the header is the
\* trimmed join of the lines outside the blocks, each block the trimmed join
\* of a run of consecutive input lines, the runs in file order, and every
\* input line lies in exactly one of them.
C1_LosslessUpToTrim ==
    split.done =>
        Decomposes(content, <<>>, split.header, MemberTexts(split), TRUE)

\* a text with lines before, inside and after a member has been split
C1_Witness ==
    /\ split.done
    /\ Len(split.members) = 1
    /\ Len(content) = 3
    /\ Len(TextLines(split.header)) = 2

(***************************************************************************)
(* SpecStrip: strip_member_wrappers applied to every text of SplitTexts    *)
(* with every kind, and then once more to what it returned.                *)
(***************************************************************************)
StripStart ==
    /\ content \in SplitTexts
    /\ split = NoResult
    /\ fpIn = <<>>
    /\ fpOut = NoResult
    /\ nt = FALSE
    /\ mklink = FALSE
    /\ mirror = <<>>
    /\ sources = <<>>
    /\ fs = <<>>
    /\ pc = "off"
    /\ run = [status |-> "none"]
    /\ hist = <<>>
    /\ call = NoCall

DoStrip ==
    /\ ~split.done
    /\ \E kind \in Kinds :
          split' = [done |-> TRUE, kind |-> kind, again |-> FALSE,
                    first |-> strip_member_wrappers(content, kind),
                    second |-> EmptyText]
    /\ UNCHANGED <<content, fpIn, fpOut, nt, mklink, mirror, sources, fs, pc, run, hist, call>>

DoStripAgain ==
    /\ split.done
    /\ ~split.again
    /\ split' = [split EXCEPT !.again = TRUE,
                              !.second = strip_member_wrappers(split.first, split.kind)]
    /\ UNCHANGED <<content, fpIn, fpOut, nt, mklink, mirror, sources, fs, pc, run, hist, call>>

StripNext == DoStrip \/ DoStripAgain

SpecStrip == StripStart /\ [][StripNext]_vars

(***************************************************************************)
(* SpecExtract: extract_single_member_body_if_any applied to every text of *)
(* SplitTexts.                                                             *)
(***************************************************************************)
ExtractStart ==
    /\ content \in SplitTexts
    /\ split = NoResult
    /\ fpIn = <<>>
    /\ fpOut = NoResult
    /\ nt = FALSE
    /\ mklink = FALSE
    /\ mirror = <<>>
    /\ sources = <<>>
    /\ fs = <<>>
    /\ pc = "off"
    /\ run = [status |-> "none"]
    /\ hist = <<>>
    /\ call = NoCall

DoExtract ==
    /\ ~split.done
    /\ split' = [done |-> TRUE, cleaned |-> extract_single_member_body_if_any(content)]
    /\ UNCHANGED <<content, fpIn, fpOut, nt, mklink, mirror, sources, fs, pc, run, hist, call>>

ExtractNext == DoExtract

SpecExtract == ExtractStart /\ [][ExtractNext]_vars

(***************************************************************************)
(* Source files.  A library's source directory is a function from the      *)
(* relative posix paths of its files (token sequences, "/" between the     *)
(* parts, the suffix as the last token) to [size, mtime, text].            *)
(***************************************************************************)
EXTS == <<"*.sr*", "*.srd", "*.srs">>

\* fnmatch of a file name against one pattern of EXTS
MatchesPattern(pattern, path) ==
    LET suffix == path[Len(path)]
    IN  CASE pattern = "*.sr*" -> suffix \in {".sru", ".srd", ".srs", ".srw"}
          [] pattern = "*.srd" -> suffix = ".srd"
          [] pattern = "*.srs" -> suffix = ".srs"
          [] OTHER -> FALSE

\* the order of str on the tokens of the model; two keys are compared token
\* by token, which is the order of the strings whenever the first tokens
\* that differ are not a prefix of one another
TokenRank(t) ==
    CASE t = " " -> 1
      [] t = "(" -> 2
      [] t = ")" -> 3
      [] t = "." -> 4
      [] t = ".pbl" -> 5
      [] t = ".pblcache" -> 6
      [] t = ".pbw" -> 7
      [] t = ".srd" -> 8
      [] t = ".srs" -> 9
      [] t = ".sru" -> 10
      [] t = ".srw" -> 11
      [] t = ".txt" -> 12
      [] t = "/" -> 13
      [] t = "?" -> 14
      [] t = "A" -> 15
      [] t = "END" -> 16
      [] t = "Function" -> 17
      [] t = "P" -> 18
      [] t = "_" -> 19
      [] t = "_manifest.json" -> 20
      [] t = "_object.txt" -> 21
      [] t = "a" -> 22
      [] t = "b" -> 23
      [] t = "end" -> 24
      [] t = "event" -> 25
      [] t = "f" -> 26
      [] t = "function" -> 27
      [] t = "g" -> 28
      [] t = "global" -> 29
      [] t = "h" -> 30
      [] t = "integer" -> 31
      [] t = "l" -> 32
      [] t = "m" -> 33
      [] t = "object.txt" -> 34
      [] t = "of" -> 35
      [] t = "p" -> 36
      [] t = "private" -> 37
      [] t = "protected" -> 38
      [] t = "public" -> 39
      [] t = "return" -> 40
      [] t = "sub" -> 41
      [] t = "subroutine" -> 42
      [] t = "test" -> 43
      [] t = "unknown" -> 44
      [] t = "void" -> 45
      [] t = "x" -> 46
      [] t = "y" -> 47
      [] OTHER -> 48

RECURSIVE StrLess(_, _)
StrLess(x, y) ==
    IF y = <<>> THEN FALSE
    ELSE IF x = <<>> THEN TRUE
    ELSE IF Head(x) = Head(y) THEN StrLess(Tail(x), Tail(y))
    ELSE TokenRank(Head(x)) < TokenRank(Head(y))

\* sorted(items, key=...) on items [key, val]: a stable sort, items with
\* equal keys keep the order they arrive in
RECURSIVE InsertByKey(_, _)
InsertByKey(sorted, x) ==
    IF sorted = <<>> THEN <<x>>
    ELSE IF StrLess(x.key, Head(sorted).key)
    THEN <<x>> \o sorted
    ELSE <<Head(sorted)>> \o InsertByKey(Tail(sorted), x)

RECURSIVE SortByKey(_)
SortByKey(items) ==
    IF items = <<>> THEN <<>>
    ELSE InsertByKey(SortByKey(SubSeq(items, 1, Len(items) - 1)), items[Len(items)])

\* sorted(names, key=lambda x: x.lower())
SortByLowerKey(items) ==
    LET keyed == SortByKey([i \in 1..Len(items) |->
                              [key |-> LowerName(items[i]), val |-> items[i]]])
    IN  [i \in 1..Len(keyed) |-> keyed[i].val]

RECURSIVE SelectSeq2(_, _)
SelectSeq2(items, pattern) ==
    IF items = <<>> THEN <<>>
    ELSE (IF MatchesPattern(pattern, Head(items)) THEN <<Head(items)>> ELSE <<>>)
            \o SelectSeq2(Tail(items), pattern)

\* the orders in which a walk of the directory can return its files
WalkOrders(dir) ==
    {w \in [1..Cardinality(DOMAIN dir) -> DOMAIN dir] :
        \A i, j \in 1..Cardinality(DOMAIN dir) : i # j => w[i] # w[j]}

(***************************************************************************)
(* collect_object_files(): the matches of each pattern, one pattern after  *)
(* the other, each in walk order, then sorted by lower-cased path.         *)
(***************************************************************************)
collect_object_files(dir, walk) ==
    SortByLowerKey(Concat([k \in 1..Len(EXTS) |-> SelectSeq2(walk, EXTS[k])]))

\* sha256 of the serialized list, taken as injective: the digest stands for
\* the byte string it was computed from
sha256_bytes(blob) == [sha256 |-> blob]

RECURSIVE SumSizes(_)
SumSizes(entries) ==
    IF entries = <<>> THEN 0 ELSE Head(entries)[2] + SumSizes(Tail(entries))

RECURSIVE MaxMtime(_)
MaxMtime(entries) ==
    IF entries = <<>> THEN 0
    ELSE LET rest == MaxMtime(Tail(entries))
         IN  IF Head(entries)[3] > rest THEN Head(entries)[3] ELSE rest

(***************************************************************************)
(* compute_pbl_fingerprint(): the entries (rel, size, mtime_ns) of the     *)
(* collected files, serialized "rel|size|mtime" one per line.              *)
(***************************************************************************)
compute_pbl_fingerprint(dir, walk) ==
    LET files == collect_object_files(dir, walk)
        entries == [i \in 1..Len(files) |->
                      <<files[i], dir[files[i]].size, dir[files[i]].mtime>>]
    IN  [fingerprint |-> sha256_bytes(entries),
         total_size |-> SumSizes(entries),
         mtime_max |-> MaxMtime(entries),
         file_count |-> Len(entries)]

(***************************************************************************)
(* SpecFp: compute_pbl_fingerprint on two source directories of at most    *)
(* MaxFiles files each, every walk order of each.                          *)
(***************************************************************************)
MaxFiles == 2

FpPaths == { <<"a", ".sru">>, <<"A", ".sru">>, <<"b", ".srd">> }

\* (size, mtime_ns) of a file
FpStats == { <<1, 1>>, <<2, 1>>, <<1, 2>> }

FpTexts == { <<<<"x">>>>, <<<<"y">>>> }

FpFiles == {[size |-> st[1], mtime |-> st[2], text |-> t] : st \in FpStats, t \in FpTexts}

FpDirs ==
    UNION {[ps -> FpFiles] : ps \in {q \in SUBSET FpPaths : Cardinality(q) <= MaxFiles}}

FpStart ==
    /\ fpIn \in {[dirA |-> a, walkA |-> wa, dirB |-> b, walkB |-> wb] :
                    a \in FpDirs, b \in FpDirs, wa \in {<<>>}, wb \in {<<>>}}
    /\ fpOut = NoResult
    /\ content = <<>>
    /\ split = NoResult
    /\ nt = FALSE
    /\ mklink = FALSE
    /\ mirror = <<>>
    /\ sources = <<>>
    /\ fs = <<>>
    /\ pc = "off"
    /\ run = [status |-> "none"]
    /\ hist = <<>>
    /\ call = NoCall

\* the two calls, each with the walk order the file system happens to give
DoFingerprints ==
    /\ ~fpOut.done
    /\ \E wa \in WalkOrders(fpIn.dirA), wb \in WalkOrders(fpIn.dirB) :
          /\ fpIn' = [fpIn EXCEPT !.walkA = wa, !.walkB = wb]
          /\ fpOut' = [done |-> TRUE,
                       a |-> compute_pbl_fingerprint(fpIn.dirA, wa),
                       b |-> compute_pbl_fingerprint(fpIn.dirB, wb)]
    /\ UNCHANGED <<content, split, nt, mklink, mirror, sources, fs, pc, run, hist, call>>

FpNext == DoFingerprints

SpecFp == FpStart /\ [][FpNext]_vars

\* the (relative path, size, modification time) triples of a directory's
\* source files
Triples(dir) ==
    {<<p, dir[p].size, dir[p].mtime>> :
        p \in {q \in DOMAIN dir : \E k \in 1..Len(EXTS) : MatchesPattern(EXTS[k], q)}}

\* C5: treating the digest as injective, two fingerprints are equal if and
\* only if the two directories hold the same set of (relative path, size,
\* modification time) triples.
C5_EqualIffSameTriples ==
    fpOut.done =>
        ((fpOut.a.fingerprint = fpOut.b.fingerprint)
            <=> (Triples(fpIn.dirA) = Triples(fpIn.dirB)))

\* C6: the fingerprint of a directory is the same for every order in which
\* the walk returns its files.
C6_WalkOrderIndependent ==
    (fpOut.done /\ fpIn.dirA = fpIn.dirB) => fpOut.a.fingerprint = fpOut.b.fingerprint

(***************************************************************************)
(* The output tree <output_root>/<version>.  A path is a sequence of names *)
(* below that directory; the tree is a function from the paths that exist  *)
(* to their nodes: a directory, a file with its text or its JSON value, or *)
(* a directory junction with its target path.                              *)
(***************************************************************************)
CacheName == <<".pblcache">>
ManifestName == <<"_manifest.json">>
HeaderArtifact == <<"_object.txt">>
FallbackArtifact == <<"object.txt">>

DirNode == [kind |-> "dir"]
TextFile(t) == [kind |-> "file", text |-> t]
JsonFile(v) == [kind |-> "file", json |-> v]
Junction(target) == [kind |-> "junction", target |-> target]

\* Path.__truediv__: joining the empty string gives the same path
ChildPath(p, name) == IF name = <<>> THEN p ELSE Append(p, name)

Parent(p) == SubSeq(p, 1, Len(p) - 1)

IsPrefix(p, q) == Len(p) <= Len(q) /\ SubSeq(q, 1, Len(p)) = p

Restrict(tree, S) == [q \in S |-> tree[q]]

\* the node itself is there (a junction, whatever its target)
Lexists(tree, p) == p = <<>> \/ p \in DOMAIN tree

\* Path.exists(): follows a junction
Exists(tree, p) ==
    \/ p = <<>>
    \/ /\ p \in DOMAIN tree
       /\ tree[p].kind = "junction" => Lexists(tree, tree[p].target)

\* Path.is_dir(): follows a junction
IsDir(tree, p) ==
    \/ p = <<>>
    \/ /\ p \in DOMAIN tree
       /\ \/ tree[p].kind = "dir"
          \/ /\ tree[p].kind = "junction"
             /\ tree[p].target \in DOMAIN tree
             /\ tree[tree[p].target].kind = "dir"

\* Path.is_symlink(): False for a directory junction
IsSymlink(tree, p) == FALSE

\* Path.iterdir(): the names in a directory
ChildNames(tree, p) ==
    {q[Len(q)] : q \in {r \in DOMAIN tree : Len(r) = Len(p) + 1 /\ IsPrefix(p, r)}}

\* Path.mkdir(parents=True, exist_ok=True)
Mkdirs(tree, p) ==
    LET missing == {SubSeq(p, 1, n) : n \in 1..Len(p)} \ DOMAIN tree
    IN  [q \in DOMAIN tree \cup missing |-> IF q \in missing THEN DirNode ELSE tree[q]]

\* Path.write_text(): creates or overwrites the file
WriteFile(tree, p, node) ==
    [q \in DOMAIN tree \cup {p} |-> IF q = p THEN node ELSE tree[q]]

\* the node and everything stored below it leave the tree; what a junction
\* below it points to is not followed
RemoveTree(tree, p) == Restrict(tree, {q \in DOMAIN tree : ~IsPrefix(p, q)})

\* shutil.rmtree(path, ignore_errors=True): refuses a path that is itself a
\* junction (the OSError is swallowed), removes a directory with all below it
rmtree(tree, p) ==
    IF p \in DOMAIN tree /\ tree[p].kind = "junction" THEN tree ELSE RemoveTree(tree, p)

ensure_removed(tree, p) ==
    IF ~Exists(tree, p) THEN tree
    ELSE IF IsSymlink(tree, p) THEN RemoveTree(tree, p)
    ELSE IF IsDir(tree, p) THEN rmtree(tree, p)
    ELSE RemoveTree(tree, p)

\* shutil.copytree(src, dst), dst not existing
CopyTree(tree, src, dst) ==
    LET below == {q \in DOMAIN tree : IsPrefix(src, q)}
        copies == {dst \o SubSeq(q, Len(src) + 1, Len(q)) : q \in below}
    IN  [q \in DOMAIN tree \cup copies |->
            IF q \in copies THEN tree[src \o SubSeq(q, Len(dst) + 1, Len(q))]
            ELSE tree[q]]

(***************************************************************************)
(* try_create_junction(): [created, tree].  Only on Windows; whatever is   *)
(* at dest is removed first; mklink /J fails when dest is still there, or  *)
(* when the system refuses (linkable = FALSE).                             *)
(***************************************************************************)
try_create_junction(tree, nt_os, linkable, dest, src) ==
    IF ~nt_os THEN [created |-> FALSE, tree |-> tree]
    ELSE LET made == Mkdirs(tree, Parent(dest))
             cleared == IF Exists(made, dest) \/ IsSymlink(made, dest)
                        THEN ensure_removed(made, dest) ELSE made
         IN  IF linkable /\ ~Lexists(cleared, dest)
             THEN [created |-> TRUE, tree |-> WriteFile(cleared, dest, Junction(src))]
             ELSE [created |-> FALSE, tree |-> cleared]

(***************************************************************************)
(* copy_tree_incremental(): [raised, tree].  shutil.copytree raises        *)
(* FileExistsError when dst is still there after ensure_removed.           *)
(***************************************************************************)
copy_tree_incremental(tree, src, dst) ==
    LET cleared == Mkdirs(ensure_removed(tree, dst), Parent(dst))
    IN  IF Lexists(cleared, dst)
        THEN [raised |-> TRUE, tree |-> cleared]
        ELSE [raised |-> FALSE, tree |-> CopyTree(cleared, src, dst)]

(***************************************************************************)
(* Path.stem: the last part of the path without its suffix.                *)
(***************************************************************************)
SuffixTokens == {".sru", ".srd", ".srs", ".srw", ".txt", ".pbl", ".pbw"}

RECURSIVE LastPart(_)
LastPart(path) ==
    IF \E i \in 1..Len(path) : path[i] = "/" THEN LastPart(Tail(path)) ELSE path

Stem(path) ==
    LET name == LastPart(path)
    IN  IF Len(name) >= 2 /\ name[Len(name)] \in SuffixTokens
        THEN SubSeq(name, 1, Len(name) - 1) ELSE name

\* read_source_file(): the texts of the model are decoded and hold no NUL and
\* no carriage return, which is all the function changes
read_source_file(file) == file.text

(***************************************************************************)
(* build_cache_for_pbl(), the loop body for one source file.               *)
(***************************************************************************)
\* mutant of WriteMembers: an artifact that is already there is not
\* overwritten, the first member of a name wins
RECURSIVE WriteMembersKeepFirst(_, _, _)
WriteMembersKeepFirst(tree, obj_dir, members) ==
    IF members = <<>> THEN tree
    ELSE LET fname == Head(members).val.fname
             kind == infer_kind_from_filename(fname)
             cleaned == strip_member_wrappers(Head(members).val.text, kind)
         IN  WriteMembersKeepFirst(
                 IF Exists(tree, ChildPath(obj_dir, fname)) THEN tree
                 ELSE WriteFile(tree, ChildPath(obj_dir, fname), TextFile(cleaned)),
                 obj_dir, Tail(members))

RECURSIVE WriteMembers(_, _, _)
WriteMembers(tree, obj_dir, members) ==
    IF members = <<>> THEN tree
    ELSE LET fname == Head(members).val.fname
             kind == infer_kind_from_filename(fname)
             cleaned == strip_member_wrappers(Head(members).val.text, kind)
         IN  WriteMembers(WriteFile(tree, ChildPath(obj_dir, fname), TextFile(cleaned)),
                          obj_dir, Tail(members))

BuildObject(tree, cache_pbl_dir, path, file) ==
    LET obj_dir == ChildPath(cache_pbl_dir, sanitize(Stem(path)))
        text == read_source_file(file)
        parts == split_object_members(text)
        made == WriteFile(Mkdirs(tree, obj_dir), ChildPath(obj_dir, HeaderArtifact),
                          TextFile(parts.header))
    IN  IF parts.members = <<>>
        THEN LET cleaned == extract_single_member_body_if_any(text)
             IN  WriteFile(made, ChildPath(obj_dir, FallbackArtifact),
                           TextFile(IF cleaned.found THEN cleaned.body ELSE text))
        ELSE LET written ==
                     WriteMembers(made, obj_dir,
                         SortByKey([i \in 1..Len(parts.members) |->
                             [key |-> LowerName(parts.members[i].fname),
                              val |-> parts.members[i]]]))
                 stale_object_txt == ChildPath(obj_dir, FallbackArtifact)
             IN  IF Exists(written, stale_object_txt)
                 THEN RemoveTree(written, stale_object_txt) ELSE written

RECURSIVE BuildObjects(_, _, _, _)
BuildObjects(tree, cache_pbl_dir, dir, obj_files) ==
    IF obj_files = <<>> THEN tree
    ELSE BuildObjects(BuildObject(tree, cache_pbl_dir, Head(obj_files), dir[Head(obj_files)]),
                      cache_pbl_dir, dir, Tail(obj_files))

RECURSIVE RemoveAll(_, _, _)
RemoveAll(tree, parent, names) ==
    IF names = {} THEN tree
    ELSE LET n == CHOOSE x \in names : TRUE
         IN  RemoveAll(ensure_removed(tree, ChildPath(parent, n)), parent, names \ {n})

\* mutant of PruneObjects: nothing is pruned
PruneObjectsNever(tree, cache_pbl_dir, expected_obj_dirs) == tree

\* the last loop of build_cache_for_pbl: the directories in the library's
\* cache that are no object of the sources are removed
PruneObjects(tree, cache_pbl_dir, expected_obj_dirs) ==
    RemoveAll(tree, cache_pbl_dir,
              {n \in ChildNames(tree, cache_pbl_dir) :
                  /\ IsDir(tree, ChildPath(cache_pbl_dir, n))
                  /\ n \notin expected_obj_dirs})

build_cache_for_pbl(tree, dir, cache_pbl_dir, walk) ==
    LET obj_files == collect_object_files(dir, walk)
        expected_obj_dirs == {sanitize(Stem(obj_files[i])) : i \in 1..Len(obj_files)}
        built == BuildObjects(Mkdirs(tree, cache_pbl_dir), cache_pbl_dir, dir, obj_files)
    IN  PruneObjects(built, cache_pbl_dir, expected_obj_dirs)

(***************************************************************************)
(* The manifest.  A JSON object is a sequence of <<key, value>> pairs in   *)
(* insertion order, which json.loads and json.dumps both keep.  The values *)
(* of a persisted manifest under "pbls" and "pbws" are [entries |-> ...]   *)
(* for a JSON object, [missing |-> TRUE] for no such key and               *)
(* [notmap |-> TRUE] for a JSON value that is no object.                   *)
(***************************************************************************)
EmptyMap == [entries |-> <<>>]
Missing == [missing |-> TRUE]
NotMap == [notmap |-> TRUE]

ManifestPath == <<CacheName, ManifestName>>

\* what json.loads gives for the texts a manifest file can hold: text that
\* does not parse, a JSON list, an object with or without its two keys
Unparseable == [shape |-> "unparseable"]
JsonList == [shape |-> "list"]
JsonObject(pbls, pbws) == [shape |-> "object", pbls |-> pbls, pbws |-> pbws]

\* load_json(): {} when the file is absent or does not parse
load_json(tree, path) ==
    IF ~Exists(tree, path) THEN JsonObject(Missing, Missing)
    ELSE IF tree[path].json = Unparseable THEN JsonObject(Missing, Missing)
    ELSE tree[path].json

MapHas(map, key) == \E i \in 1..Len(map.entries) : map.entries[i][1] = key

MapGet(map, key) ==
    map.entries[CHOOSE i \in 1..Len(map.entries) : map.entries[i][1] = key][2]

\* d[key] = value: in place when the key is there, appended when it is not
MapSet(map, key, value) ==
    IF MapHas(map, key)
    THEN [entries |-> [i \in 1..Len(map.entries) |->
                          IF map.entries[i][1] = key THEN <<key, value>> ELSE map.entries[i]]]
    ELSE [entries |-> Append(map.entries, <<key, value>>)]

MapKeys(map) == [i \in 1..Len(map.entries) |-> map.entries[i][1]]

(***************************************************************************)
(* discover_pbw_to_pbls(): the mirror is a function from the paths of its  *)
(* .pbw files to the library file names their targets list (what           *)
(* parse_pbw_targets and parse_pbt_libs return, one target after the       *)
(* other).  The result maps sanitize(stem) to the list without repeats.    *)
(***************************************************************************)
RECURSIVE UniqueByLower(_, _)
UniqueByLower(names, seen) ==
    IF names = <<>> THEN <<>>
    ELSE IF LowerName(Head(names)) \in seen THEN UniqueByLower(Tail(names), seen)
    ELSE <<Head(names)>> \o UniqueByLower(Tail(names), seen \cup {LowerName(Head(names))})

RECURSIVE SetToSeq(_)
SetToSeq(S) ==
    IF S = {} THEN <<>>
    ELSE LET x == CHOOSE y \in S : TRUE IN <<x>> \o SetToSeq(S \ {x})

RECURSIVE DiscoverLoop(_, _, _)
DiscoverLoop(map, pbws, mirr) ==
    IF pbws = <<>> THEN map
    ELSE DiscoverLoop(MapSet(map, sanitize(Stem(Head(pbws))),
                             UniqueByLower(mirr[Head(pbws)], {})),
                      Tail(pbws), mirr)

discover_pbw_to_pbls(mirr) ==
    DiscoverLoop(EmptyMap, SortByLowerKey(SetToSeq(DOMAIN mirr)), mirr)

PblStems(pbls) == {sanitize(Stem(pbls[i])) : i \in 1..Len(pbls)}

(***************************************************************************)
(* cleanup_not_in_mirror(), its three parts.  version_out is the root <<>>.*)
(***************************************************************************)
\* 1) project directories that are no key of pbw_map
CleanupPbwDirs(tree, pbw_map) ==
    RemoveAll(tree, <<>>,
              {n \in ChildNames(tree, <<>>) :
                  /\ n # CacheName
                  /\ IsDir(tree, <<n>>)
                  /\ n \notin Range(MapKeys(pbw_map))})

\* 2) inside each project directory, the libraries its list does not name
RECURSIVE CleanupPblDirsLoop(_, _)
CleanupPblDirsLoop(tree, items) ==
    IF items = <<>> THEN tree
    ELSE LET pbw_dir == ChildPath(<<>>, Head(items)[1])
             allowed_pbl_dirs == PblStems(Head(items)[2])
         IN  IF ~Exists(tree, pbw_dir) THEN CleanupPblDirsLoop(tree, Tail(items))
             ELSE CleanupPblDirsLoop(
                      RemoveAll(tree, pbw_dir,
                                {n \in ChildNames(tree, pbw_dir) :
                                    /\ IsDir(tree, ChildPath(pbw_dir, n))
                                    /\ n \notin allowed_pbl_dirs}),
                      Tail(items))

CleanupPblDirs(tree, pbw_map) == CleanupPblDirsLoop(tree, pbw_map.entries)

RequiredStems(pbw_map) ==
    UNION {PblStems(pbw_map.entries[i][2]) : i \in 1..Len(pbw_map.entries)}

\* 3) the library caches that no project lists
CleanupCache(tree, pbw_map) ==
    IF ~Exists(tree, <<CacheName>>) THEN tree
    ELSE RemoveAll(tree, <<CacheName>>,
                   {n \in ChildNames(tree, <<CacheName>>) :
                       /\ IsDir(tree, <<CacheName, n>>)
                       /\ n \notin {<<".manifest.json">>, ManifestName}
                       /\ n \notin RequiredStems(pbw_map)})

cleanup_not_in_mirror(tree, pbw_map) ==
    CleanupCache(CleanupPblDirs(CleanupPbwDirs(tree, pbw_map), pbw_map), pbw_map)

(***************************************************************************)
(* main(), for one version: the body of the loop over VERSIONS, cut at the *)
(* calls it makes.  pc: idle -> clean1 -> clean2 -> clean3 -> build ->     *)
(* assemble -> idle; an exception ends the run where it is raised.         *)
(***************************************************************************)
RunIdle ==
    [status |-> "none",
     manifest |-> [pbls |-> EmptyMap, pbws |-> EmptyMap],
     pbw_map |-> EmptyMap,
     warnings |-> <<>>,
     built |-> {},
     todo |-> <<>>,
     error |-> "none"]

\* an exception leaves main(): the run ends where it stands
Raised(r, error) == [r EXCEPT !.status = "raised", !.todo = <<>>, !.error = error]

\* lines 565-577: the cache directory, the manifest, the mirror model
MainStart ==
    /\ pc = "idle"
    /\ LET made == Mkdirs(fs, <<CacheName>>)
           loaded == load_json(made, ManifestPath)
       IN  /\ fs' = made
           /\ IF loaded.shape = "list"
              THEN /\ run' = Raised(RunIdle, "TypeError")
                   /\ pc' = "idle"
              ELSE /\ run' = [RunIdle EXCEPT
                                !.status = "running",
                                !.manifest =
                                    [pbls |-> IF loaded.pbls = Missing THEN EmptyMap
                                              ELSE loaded.pbls,
                                     pbws |-> IF loaded.pbws = Missing THEN EmptyMap
                                              ELSE loaded.pbws],
                                !.pbw_map = discover_pbw_to_pbls(mirror)]
                   /\ pc' = "clean1"
    /\ hist' = [hist EXCEPT !.prev = run.status, !.prevFs = fs,
                            !.quietBefore = hist.quiet, !.quiet = TRUE,
                            !.loaded = IF Exists(fs, ManifestPath) THEN fs[ManifestPath].json
                                       ELSE [shape |-> "absent"]]
    /\ UNCHANGED <<nt, mklink, mirror, sources>>

\* lines 580-581, cleanup_not_in_mirror part 1
CleanPbwDirs ==
    /\ pc = "clean1"
    /\ fs' = CleanupPbwDirs(fs, run.pbw_map)
    /\ pc' = "clean2"
    /\ UNCHANGED <<nt, mklink, mirror, sources, run, hist>>

\* cleanup_not_in_mirror part 2
CleanPblDirs ==
    /\ pc = "clean2"
    /\ fs' = CleanupPblDirs(fs, run.pbw_map)
    /\ pc' = "clean3"
    /\ UNCHANGED <<nt, mklink, mirror, sources, run, hist>>

\* cleanup_not_in_mirror part 3
CleanCache ==
    /\ pc = "clean3"
    /\ fs' = CleanupCache(fs, run.pbw_map)
    /\ pc' = "build"
    /\ UNCHANGED <<nt, mklink, mirror, sources, run, hist>>

\* lines 584-591: the libraries of all projects, each once, in the order
\* of the projects sorted by lower-cased name
RECURSIVE RequiredLoop(_, _, _)
RequiredLoop(pbw_names, pbw_map, acc) ==
    IF pbw_names = <<>> THEN acc
    ELSE LET pbls == MapGet(pbw_map, Head(pbw_names))
             stems == [i \in 1..Len(pbls) |-> sanitize(Stem(pbls[i]))]
             fresh == SelectSeq(stems, LAMBDA x : x \notin Range(acc))
         IN  RequiredLoop(Tail(pbw_names), pbw_map,
                          acc \o [i \in 1..Len(fresh) |-> fresh[i]])

RECURSIVE Dedup(_)
Dedup(q) ==
    IF q = <<>> THEN <<>>
    ELSE IF \E i \in 1..(Len(q) - 1) : q[i] = q[Len(q)]
    THEN Dedup(SubSeq(q, 1, Len(q) - 1))
    ELSE Append(Dedup(SubSeq(q, 1, Len(q) - 1)), q[Len(q)])

required_pbls(pbw_map) ==
    Dedup(RequiredLoop(SortByLowerKey(MapKeys(pbw_map)), pbw_map, <<>>))

\* mutant of BuildOne: the skip test of line 608 is dropped, every library
\* whose sources exist is rebuilt
BuildOneAlways(b, pbl_stem, srcs, walks) ==
    IF b.raised THEN b
    ELSE IF pbl_stem \notin DOMAIN srcs
    THEN [b EXCEPT !.warnings = Append(b.warnings, [warn |-> "pbl_not_found", pbl |-> pbl_stem])]
    ELSE IF b.manifest.pbls = NotMap THEN [b EXCEPT !.raised = TRUE]
    ELSE [b EXCEPT
            !.tree = build_cache_for_pbl(b.tree, srcs[pbl_stem],
                                         <<CacheName, pbl_stem>>, walks[pbl_stem]),
            !.manifest.pbls = MapSet(b.manifest.pbls, pbl_stem,
                                     compute_pbl_fingerprint(srcs[pbl_stem], walks[pbl_stem])),
            !.built = b.built \cup {pbl_stem}]

\* lines 594-614, one library
BuildOne(b, pbl_stem, srcs, walks) ==
    IF b.raised THEN b
    ELSE IF pbl_stem \notin DOMAIN srcs
    THEN [b EXCEPT !.warnings = Append(b.warnings, [warn |-> "pbl_not_found", pbl |-> pbl_stem])]
    ELSE LET fp == compute_pbl_fingerprint(srcs[pbl_stem], walks[pbl_stem])
             cache_pbl_dir == <<CacheName, pbl_stem>>
         IN  IF b.manifest.pbls = NotMap THEN [b EXCEPT !.raised = TRUE]
             ELSE IF /\ MapHas(b.manifest.pbls, pbl_stem)
                     /\ MapGet(b.manifest.pbls, pbl_stem).fingerprint = fp.fingerprint
                     /\ Exists(b.tree, cache_pbl_dir)
             THEN b
             ELSE [b EXCEPT
                     !.tree = build_cache_for_pbl(b.tree, srcs[pbl_stem],
                                                  cache_pbl_dir, walks[pbl_stem]),
                     !.manifest.pbls = MapSet(b.manifest.pbls, pbl_stem, fp),
                     !.built = b.built \cup {pbl_stem}]

RECURSIVE BuildLoop(_, _, _, _)
BuildLoop(b, stems, srcs, walks) ==
    IF stems = <<>> THEN b
    ELSE BuildLoop(BuildOne(b, Head(stems), srcs, walks), Tail(stems), srcs, walks)

\* lines 617-645 as a work list: per project, sorted by lower-cased name,
\* its directory and then its libraries in list order
RECURSIVE AssemblyItems(_, _)
AssemblyItems(pbw_names, pbw_map) ==
    IF pbw_names = <<>> THEN <<>>
    ELSE LET pbls == MapGet(pbw_map, Head(pbw_names))
         IN  <<[op |-> "pbw", pbw |-> Head(pbw_names), pbl |-> <<>>]>>
             \o [i \in 1..Len(pbls) |-> [op |-> "pbl", pbw |-> Head(pbw_names), pbl |-> pbls[i]]]
             \o AssemblyItems(Tail(pbw_names), pbw_map)

\* the walk order of each library's source directory during this run
WalkChoices(srcs) ==
    LET all == UNION {WalkOrders(srcs[d]) : d \in DOMAIN srcs}
    IN  {w \in [DOMAIN srcs -> all] : \A d \in DOMAIN srcs : w[d] \in WalkOrders(srcs[d])}

\* the state the build loop leaves: the tree, the manifest in memory, and
\* either the work list of the assembly or the exception
BuildDone(b) ==
    /\ fs' = b.tree
    /\ IF b.raised
       THEN /\ run' = Raised([run EXCEPT !.manifest = b.manifest,
                                         !.warnings = b.warnings,
                                         !.built = b.built],
                             "AttributeError")
            /\ pc' = "idle"
       ELSE /\ run' = [run EXCEPT
                         !.manifest = b.manifest,
                         !.warnings = b.warnings,
                         !.built = b.built,
                         !.todo = AssemblyItems(SortByLowerKey(MapKeys(run.pbw_map)),
                                                run.pbw_map)]
            /\ pc' = "assemble"

BuildCaches ==
    /\ pc = "build"
    /\ \E walks \in WalkChoices(sources) :
          BuildDone(BuildLoop([tree |-> fs, manifest |-> run.manifest,
                               warnings |-> run.warnings, built |-> {}, raised |-> FALSE],
                              SortByLowerKey(required_pbls(run.pbw_map)), sources, walks))
    /\ UNCHANGED <<nt, mklink, mirror, sources, hist>>

\* lines 618-622: the project's directory and its entry in the manifest
AssemblePbw(tree, manifest, pbw_name, pbls) ==
    LET out_pbw_dir == ChildPath(<<>>, pbw_name)
    IN  IF manifest.pbws = NotMap
        THEN [raised |-> TRUE, tree |-> Mkdirs(tree, out_pbw_dir), manifest |-> manifest]
        ELSE [raised |-> FALSE,
              tree |-> Mkdirs(tree, out_pbw_dir),
              manifest |-> [manifest EXCEPT !.pbws =
                               MapSet(manifest.pbws, pbw_name,
                                      [i \in 1..Len(pbls) |-> sanitize(Stem(pbls[i]))])]]

\* lines 624-645: one library entry of one project
AssemblePbl(tree, nt_os, linkable, pbw_name, pbl) ==
    LET pbl_stem == sanitize(Stem(pbl))
        cache_pbl_dir == <<CacheName, pbl_stem>>
        dest == ChildPath(ChildPath(<<>>, pbw_name), pbl_stem)
    IN  IF ~Exists(tree, cache_pbl_dir) THEN [raised |-> FALSE, tree |-> tree]
        ELSE LET cleared == IF Exists(tree, dest) /\ ~IsSymlink(tree, dest)
                            THEN ensure_removed(tree, dest) ELSE tree
                 link == try_create_junction(cleared, nt_os, linkable, dest, cache_pbl_dir)
             IN  IF link.created THEN [raised |-> FALSE, tree |-> link.tree]
                 ELSE copy_tree_incremental(link.tree, cache_pbl_dir, dest)

AssembleStep ==
    /\ pc = "assemble"
    /\ run.todo # <<>>
    /\ LET item == Head(run.todo)
       IN  IF item.op = "pbw"
           THEN LET r == AssemblePbw(fs, run.manifest, item.pbw,
                                     MapGet(run.pbw_map, item.pbw))
                IN  /\ fs' = r.tree
                    /\ IF r.raised
                       THEN run' = Raised(run, "TypeError") /\ pc' = "idle"
                       ELSE /\ run' = [run EXCEPT !.manifest = r.manifest,
                                                  !.todo = Tail(run.todo)]
                            /\ pc' = pc
           ELSE LET r == AssemblePbl(fs, nt, mklink, item.pbw, item.pbl)
                IN  /\ fs' = r.tree
                    /\ IF r.raised
                       THEN run' = Raised(run, "FileExistsError") /\ pc' = "idle"
                       ELSE run' = [run EXCEPT !.todo = Tail(run.todo)] /\ pc' = pc
    /\ UNCHANGED <<nt, mklink, mirror, sources, hist>>

\* save_json(): the manifest file holds the manifest object
save_json(tree, path, data) ==
    WriteFile(Mkdirs(tree, Parent(path)), path, JsonFile(data))

\* lines 648-649: the run of this version is complete
SaveManifest ==
    /\ pc = "assemble"
    /\ run.todo = <<>>
    /\ fs' = save_json(fs, ManifestPath, JsonObject(run.manifest.pbls, run.manifest.pbws))
    /\ run' = [run EXCEPT !.status = "done"]
    /\ pc' = "idle"
    /\ UNCHANGED <<nt, mklink, mirror, sources, hist>>

(***************************************************************************)
(* The world between two runs: the sources, the mirror and the persisted   *)
(* manifest change under the program's feet, at most MaxChanges times.     *)
(***************************************************************************)
MaxChanges == 2

Libs == { <<"l">>, <<"m">> }

PbwFiles == { <<"P", ".pbw">>, <<"_", ".pbw">> }

PblLists ==
    { <<>>, << <<"l", ".pbl">> >>, << <<"m", ".pbl">> >>,
      << <<"l", ".pbl">>, <<"m", ".pbl">> >> }

MainPaths == { <<"a", ".sru">>, <<"a", ".srd">>, <<"b", ".sru">> }

MemberText ==
    << <<"function", " ", "void", " ", "f", "(", ")">>, <<" ", "x">>, <<"end", " ", "function">> >>

PlainText == << <<"x">> >>

\* a source file: its stat and its text.  The second has the stat of the
\* first and another text, the third another stat.
MainFiles ==
    { [size |-> 1, mtime |-> 1, text |-> MemberText],
      [size |-> 1, mtime |-> 1, text |-> PlainText],
      [size |-> 2, mtime |-> 2, text |-> PlainText] }

EmptyDir == [q \in {} |-> PlainText]

Changed(h) == [h EXCEPT !.changes = h.changes + 1, !.quiet = FALSE]

\* a change falls between two runs
CanChange == pc = "idle" /\ run.status # "none" /\ hist.changes < MaxChanges

WriteSource ==
    /\ CanChange
    /\ \E lib \in DOMAIN sources, path \in MainPaths, file \in MainFiles :
          /\ path \in DOMAIN sources[lib] => sources[lib][path] # file
          /\ sources' = [sources EXCEPT ![lib] =
                            [q \in DOMAIN sources[lib] \cup {path} |->
                                IF q = path THEN file ELSE sources[lib][q]]]
          \* the write shows in the file's path, size or modification time
          /\ hist' = [Changed(hist) EXCEPT !.visible =
                          /\ hist.visible
                          /\ \/ path \notin DOMAIN sources[lib]
                             \/ sources[lib][path].size # file.size
                             \/ sources[lib][path].mtime # file.mtime]
    /\ UNCHANGED <<nt, mklink, mirror, fs, pc, run>>

DeleteSource ==
    /\ CanChange
    /\ \E lib \in DOMAIN sources, path \in MainPaths :
          /\ path \in DOMAIN sources[lib]
          /\ sources' = [sources EXCEPT ![lib] =
                            [q \in DOMAIN sources[lib] \ {path} |-> sources[lib][q]]]
    /\ hist' = Changed(hist)
    /\ UNCHANGED <<nt, mklink, mirror, fs, pc, run>>

RemoveSourceDir ==
    /\ CanChange
    /\ \E lib \in DOMAIN sources :
          sources' = [d \in DOMAIN sources \ {lib} |-> sources[d]]
    /\ hist' = Changed(hist)
    /\ UNCHANGED <<nt, mklink, mirror, fs, pc, run>>

MakeSourceDir ==
    /\ CanChange
    /\ \E lib \in Libs \ DOMAIN sources :
          sources' = [d \in DOMAIN sources \cup {lib} |->
                         IF d = lib THEN EmptyDir ELSE sources[d]]
    /\ hist' = Changed(hist)
    /\ UNCHANGED <<nt, mklink, mirror, fs, pc, run>>

SetMirror ==
    /\ CanChange
    /\ \E pbw \in PbwFiles, pbls \in PblLists :
          /\ pbw \in DOMAIN mirror => mirror[pbw] # pbls
          /\ mirror' = [q \in DOMAIN mirror \cup {pbw} |->
                           IF q = pbw THEN pbls ELSE mirror[q]]
    /\ hist' = Changed(hist)
    /\ UNCHANGED <<nt, mklink, sources, fs, pc, run>>

RemoveMirror ==
    /\ CanChange
    /\ \E pbw \in DOMAIN mirror :
          mirror' = [q \in DOMAIN mirror \ {pbw} |-> mirror[q]]
    /\ hist' = Changed(hist)
    /\ UNCHANGED <<nt, mklink, sources, fs, pc, run>>

\* what a manifest file can hold that no run has written
BadManifests ==
    { Unparseable, JsonList, JsonObject(NotMap, EmptyMap), JsonObject(EmptyMap, NotMap) }

CorruptManifest ==
    /\ CanChange
    /\ \E bad \in BadManifests :
          /\ fs' = save_json(fs, ManifestPath, bad)
          /\ hist' = Changed(hist)
    /\ UNCHANGED <<nt, mklink, mirror, sources, pc, run>>

MainInit ==
    /\ nt \in BOOLEAN
    /\ mklink \in (IF nt THEN BOOLEAN ELSE {FALSE})
    /\ mirror \in { [q \in {<<"P", ".pbw">>} |-> << <<"l", ".pbl">>, <<"m", ".pbl">> >>],
                    [q \in PbwFiles |-> IF q = <<"P", ".pbw">> THEN << <<"l", ".pbl">> >>
                                        ELSE << <<"m", ".pbl">> >>] }
    /\ sources = [d \in Libs |->
                    IF d = <<"l">> THEN [q \in {<<"a", ".sru">>} |-> [size |-> 1, mtime |-> 1, text |-> MemberText]]
                    ELSE [q \in {<<"b", ".sru">>} |-> [size |-> 1, mtime |-> 1, text |-> PlainText]]]
    /\ fs = [q \in {} |-> DirNode]
    /\ pc = "idle"
    /\ run = RunIdle
    /\ hist = [changes |-> 0, prev |-> "none", prevFs |-> [q \in {} |-> DirNode],
               quiet |-> TRUE, quietBefore |-> TRUE, loaded |-> [shape |-> "absent"],
               visible |-> TRUE]

Init ==
    /\ MainInit
    /\ content = <<>>
    /\ split = NoResult
    /\ fpIn = <<>>
    /\ fpOut = NoResult
    /\ call = NoCall

Next ==
    \/ /\ \/ MainStart
          \/ CleanPbwDirs
          \/ CleanPblDirs
          \/ CleanCache
          \/ BuildCaches
          \/ AssembleStep
          \/ SaveManifest
          \/ WriteSource
          \/ DeleteSource
          \/ RemoveSourceDir
          \/ MakeSourceDir
          \/ SetMirror
          \/ RemoveMirror
          \/ CorruptManifest
       /\ UNCHANGED <<content, split, fpIn, fpOut, call>>

Spec == Init /\ [][Next]_vars

(***************************************************************************)
(* SpecBuild: build_cache_for_pbl() called again and again on one library  *)
(* whose source directory changes between the calls in any way.            *)
(***************************************************************************)
BuildLib == <<"l">>

BuildDirs == UNION {[ps -> MainFiles] : ps \in SUBSET MainPaths}

BuildStart ==
    /\ sources \in [{BuildLib} -> BuildDirs]
    /\ fs = <<>>
    /\ pc = "changed"
    /\ hist = [prevFs |-> <<>>]
    /\ run = [status |-> "none"]
    /\ nt = FALSE
    /\ mklink = FALSE
    /\ mirror = <<>>
    /\ content = <<>>
    /\ split = NoResult
    /\ fpIn = <<>>
    /\ fpOut = NoResult
    /\ call = NoCall

ChangeSources ==
    /\ \E dir \in BuildDirs \ {sources[BuildLib]} :
          sources' = [sources EXCEPT ![BuildLib] = dir]
    /\ pc' = "changed"
    /\ UNCHANGED <<fs, hist, run, nt, mklink, mirror, content, split, fpIn, fpOut, call>>

RebuildCache ==
    /\ \E walk \in WalkOrders(sources[BuildLib]) :
          fs' = build_cache_for_pbl(fs, sources[BuildLib], <<CacheName, BuildLib>>, walk)
    /\ hist' = [prevFs |-> fs]
    /\ pc' = "built"
    /\ UNCHANGED <<sources, run, nt, mklink, mirror, content, split, fpIn, fpOut, call>>

BuildNext == ChangeSources \/ RebuildCache

SpecBuild == BuildStart /\ [][BuildNext]_vars

(***************************************************************************)
(* SpecExit: one call of main(argv) from its first line to its return: the *)
(* check of argv, the loop over VERSIONS around the body modelled above,   *)
(* and the status returned.  Every version has its own mirror, sources and *)
(* output directory; what the loop finds for a version is drawn when the   *)
(* loop gets there.                                                        *)
(***************************************************************************)
VERSIONS == <<"6.5", "7.0", "8.0", "9.0", "10.5", "12.5">>

\* len(argv): one argument missing, the usage, one argument too many
ArgvLens == {3, 4, 5}

NoTree == [q \in {} |-> DirNode]

\* what <mirror_root>/<version> can hold: nothing, or two projects
VersionMirrors ==
    { [q \in {} |-> <<>>],
      [q \in {<<"A", ".pbw">>, <<"P", ".pbw">>} |->
          IF q = <<"A", ".pbw">> THEN << <<"m", ".pbl">>, <<"l", ".pbl">> >>
          ELSE << <<"l", ".pbl">> >>] }

\* what <sources_root>/<version> can hold: nothing, or one library
VersionSources ==
    { [d \in {} |-> EmptyDir],
      [d \in {<<"l">>} |->
          [q \in {<<"a", ".sru">>} |-> [size |-> 1, mtime |-> 1, text |-> MemberText]]] }

\* what <output_root>/<version> can hold before the call
VersionOuts == { NoTree, save_json(NoTree, ManifestPath, JsonList) }

\* a directory the loop looks for: absent, or there with what it holds
Absent == [exists |-> FALSE]

Present(holds) == [exists |-> TRUE, holds |-> holds]

NotReturned == [returned |-> FALSE]

Returned(status) == [returned |-> TRUE, status |-> status]

ExitStart ==
    /\ call \in {[phase |-> "start", argc |-> n, mirror_root |-> mr, sources_root |-> sr,
                  versions |-> VERSIONS, warnings |-> <<>>, processed |-> <<>>,
                  result |-> NotReturned] :
                    n \in ArgvLens, mr \in BOOLEAN, sr \in BOOLEAN}
    /\ nt \in BOOLEAN
    /\ mklink \in (IF nt THEN BOOLEAN ELSE {FALSE})
    /\ mirror = [q \in {} |-> <<>>]
    /\ sources = [d \in {} |-> EmptyDir]
    /\ fs = NoTree
    /\ pc = "idle"
    /\ run = RunIdle
    /\ hist = [changes |-> 0, prev |-> "none", prevFs |-> NoTree,
               quiet |-> TRUE, quietBefore |-> TRUE, loaded |-> [shape |-> "absent"]]
    /\ content = <<>>
    /\ split = NoResult
    /\ fpIn = <<>>
    /\ fpOut = NoResult

\* lines 544-552
MainEnter ==
    /\ call.phase = "start"
    /\ IF call.argc # 4
       THEN call' = [call EXCEPT !.phase = "returned", !.result = Returned(2)]
       ELSE call' = [call EXCEPT !.phase = "loop"]
    /\ UNCHANGED <<nt, mklink, mirror, sources, fs, pc, run, hist>>
    /\ UNCHANGED <<content, split, fpIn, fpOut>>

\* lines 554-563: the next version; a directory below a root that does not
\* exist does not exist
NextVersion ==
    /\ call.phase = "loop"
    /\ call.versions # <<>>
    /\ \E version_mirror \in {Absent} \cup (IF call.mirror_root
                                            THEN {Present(m) : m \in VersionMirrors}
                                            ELSE {}),
          version_sources \in {Absent} \cup (IF call.sources_root
                                             THEN {Present(d) : d \in VersionSources}
                                             ELSE {}),
          version_out \in VersionOuts :
          IF ~version_mirror.exists
          THEN /\ call' = [call EXCEPT !.versions = Tail(call.versions)]
               /\ UNCHANGED <<mirror, sources, fs, pc, run>>
          ELSE IF ~version_sources.exists
          THEN /\ call' = [call EXCEPT
                             !.versions = Tail(call.versions),
                             !.warnings = Append(call.warnings,
                                                 [warn |-> "missing_sources",
                                                  version |-> Head(call.versions)])]
               /\ UNCHANGED <<mirror, sources, fs, pc, run>>
          ELSE /\ call' = [call EXCEPT !.phase = "enter"]
               /\ mirror' = version_mirror.holds
               /\ sources' = version_sources.holds
               /\ fs' = version_out
               /\ pc' = "idle"
               /\ run' = RunIdle
    /\ UNCHANGED <<nt, mklink, hist, content, split, fpIn, fpOut>>

\* lines 565-577 for this version
EnterVersion ==
    /\ call.phase = "enter"
    /\ MainStart
    /\ call' = [call EXCEPT !.phase = "body"]
    /\ UNCHANGED <<content, split, fpIn, fpOut>>

\* lines 580-649 for this version
VersionBody ==
    /\ call.phase = "body"
    /\ \/ CleanPbwDirs
       \/ CleanPblDirs
       \/ CleanCache
       \/ BuildCaches
       \/ AssembleStep
       \/ SaveManifest
    /\ UNCHANGED <<call, content, split, fpIn, fpOut>>

\* the end of the loop body, or the exception leaving main()
LeaveVersion ==
    /\ call.phase = "body"
    /\ pc = "idle"
    /\ IF run.status = "raised"
       THEN call' = [call EXCEPT !.phase = "raised"]
       ELSE call' = [call EXCEPT
                       !.phase = "loop",
                       !.versions = Tail(call.versions),
                       !.warnings = call.warnings \o run.warnings,
                       !.processed = Append(call.processed, Head(call.versions))]
    /\ UNCHANGED <<nt, mklink, mirror, sources, fs, pc, run, hist>>
    /\ UNCHANGED <<content, split, fpIn, fpOut>>

\* lines 651-656
MainReturn ==
    /\ call.phase = "loop"
    /\ call.versions = <<>>
    /\ call' = [call EXCEPT !.phase = "returned", !.result = Returned(0)]
    /\ UNCHANGED <<nt, mklink, mirror, sources, fs, pc, run, hist>>
    /\ UNCHANGED <<content, split, fpIn, fpOut>>

ExitNext ==
    \/ MainEnter
    \/ NextVersion
    \/ EnterVersion
    \/ VersionBody
    \/ LeaveVersion
    \/ MainReturn

SpecExit == ExitStart /\ [][ExitNext]_vars

(***************************************************************************)
(* SpecObject: build_cache_for_pbl() called on a library that holds one    *)
(* source object, with no cache yet.  The object's text is any text of     *)
(* SplitTexts, or two or three complete member blocks one after the other, *)
(* whose names can coincide, exactly or up to letter case.                 *)
(***************************************************************************)
ObjectPath == <<"a", ".sru">>

MemberBlocks ==
    {<<opener, body, closing>> :
        opener \in { <<"function", " ", "void", " ", "a">>,
                     <<"function", " ", "void", " ", "A">>,
                     <<"subroutine", " ", "a">> },
        body \in { <<" ", "x">>, <<"y">> },
        closing \in { <<"end", " ", "function">>, <<" ", "END", " ", "subroutine", " ">> }}

DuplicateTexts ==
    {b1 \o b2 : b1, b2 \in MemberBlocks}
        \cup {b1 \o b2 \o b3 : b1, b2, b3 \in MemberBlocks}

ObjectTexts == SplitTexts \cup DuplicateTexts

ObjectStart ==
    /\ sources \in {[d \in {BuildLib} |->
                       [q \in {ObjectPath} |-> [size |-> 1, mtime |-> 1, text |-> t]]] :
                    t \in ObjectTexts}
    /\ fs = <<>>
    /\ pc = "changed"
    /\ hist = [prevFs |-> <<>>]
    /\ run = [status |-> "none"]
    /\ nt = FALSE
    /\ mklink = FALSE
    /\ mirror = <<>>
    /\ content = <<>>
    /\ split = NoResult
    /\ fpIn = <<>>
    /\ fpOut = NoResult
    /\ call = NoCall

ObjectNext == RebuildCache

SpecObject == ObjectStart /\ [][ObjectNext]_vars

(***************************************************************************)
(* What the mirror and the sources call for, read off the inputs alone.    *)
(***************************************************************************)
ProjectNames == {sanitize(Stem(p)) : p \in DOMAIN mirror}

ListedLibs(name) ==
    UNION {PblStems(mirror[p]) : p \in {q \in DOMAIN mirror : sanitize(Stem(q)) = name}}

RequiredLibs == UNION {ListedLibs(n) : n \in ProjectNames}

SourceObjects(dir) ==
    {p \in DOMAIN dir : \E k \in 1..Len(EXTS) : MatchesPattern(EXTS[k], p)}

ExpectedObjDirs(dir) == {sanitize(Stem(p)) : p \in SourceObjects(dir)}

ExpectedArtifacts(dir, obj) ==
    {HeaderArtifact} \cup
    UNION {LET parts == split_object_members(dir[p].text)
           IN  IF parts.members = <<>> THEN {FallbackArtifact}
               ELSE {parts.members[i].fname : i \in 1..Len(parts.members)}
           : p \in {q \in SourceObjects(dir) : sanitize(Stem(q)) = obj}}

\* the directories directly under a directory of the tree
SubDirs(tree, p) == {n \in ChildNames(tree, p) : tree[ChildPath(p, n)].kind = "dir"}

CacheLibDirs(tree) == IF <<CacheName>> \in DOMAIN tree THEN SubDirs(tree, <<CacheName>>) ELSE {}

\* the library directories of the cache with all they hold
CacheContents(tree) ==
    Restrict(tree, {q \in DOMAIN tree : Len(q) >= 2 /\ q[1] = CacheName /\ q[2] # ManifestName})

\* a path below <cache>/<lib> is called for when the library is required,
\* its sources are there, and the path is an object of the sources or an
\* artifact of the object's current text
CalledForInLib(lib, rest) ==
    /\ lib \in RequiredLibs
    /\ lib \in DOMAIN sources
    /\ Len(rest) >= 1 => rest[1] \in ExpectedObjDirs(sources[lib])
    /\ Len(rest) >= 2 => rest[2] \in ExpectedArtifacts(sources[lib], rest[1])
    /\ Len(rest) <= 2

CalledFor(q) ==
    \/ q \in {<<CacheName>>, ManifestPath}
    \/ /\ Len(q) >= 2
       /\ q[1] = CacheName
       /\ CalledForInLib(q[2], SubSeq(q, 3, Len(q)))
    \/ \E n \in ProjectNames :
          \/ q = ChildPath(<<>>, n)
          \/ \E lib \in ListedLibs(n) :
                LET dest == ChildPath(ChildPath(<<>>, n), lib)
                IN  /\ IsPrefix(dest, q)
                    /\ CalledForInLib(lib, SubSeq(q, Len(dest) + 1, Len(q)))

\* the last run is complete and nothing has changed since it began
RunComplete == pc = "idle" /\ run.status = "done" /\ hist.quiet

\* ... and the run before it was complete too, with no change in between
SecondRunComplete == RunComplete /\ hist.prev = "done" /\ hist.quietBefore

\* C2: every object directory of the cache holds the fallback artifact or
\* member artifacts, never both and never neither, whatever runs came before.
C2_ExclusiveModes ==
    \A lib \in CacheLibDirs(fs) : \A obj \in SubDirs(fs, <<CacheName, lib>>) :
        LET names == ChildNames(fs, <<CacheName, lib, obj>>)
        IN  (FallbackArtifact \in names) # (names \ {HeaderArtifact, FallbackArtifact} # {})

\* C3: a run that follows a complete run with no change in between builds
\* no library's cache.
C3_SkipSafe == (hist.prev = "done" /\ hist.quietBefore) => run.built = {}

\* C4: the second of two complete runs with no change in between leaves the
\* tree the first one left, and the tree holds nothing that the mirror and
\* the sources do not call for.
C4_Convergence ==
    SecondRunComplete => (fs = hist.prevFs /\ \A q \in DOMAIN fs : CalledFor(q))

C8_NoStaleAfterRun ==
    RunComplete =>
        /\ \A n \in ChildNames(fs, <<>>) \ {CacheName} :
              \/ n \in ProjectNames
              \/ <<>> \in ProjectNames /\ n \in ListedLibs(<<>>)
        /\ \A n \in ProjectNames \ {<<>>} :
              \A lib \in ChildNames(fs, <<n>>) : lib \in ListedLibs(n)
        /\ \A lib \in CacheLibDirs(fs) : lib \in RequiredLibs

\* a step of the project-level cleanup or of the assembly keeps the cache
CacheKept == pc \in {"clean1", "clean2", "assemble"} => CacheContents(fs') = CacheContents(fs)

\* C9: the project-level cleanup and the assembly leave the library
\* directories of the cache and all they hold as they are.
C9_AssemblerKeepsCache == [][CacheKept]_vars

\* C10: no run ends with an exception raised on the manifest's shape.
C10_ManifestNeverFatal == ~(run.status = "raised" /\ run.error \in {"TypeError", "AttributeError"})

\* C11: main returns a non-zero status, without raising, when the mirror
\* root or the sources root is missing, and returns zero only when at
\* least one version (group) was processed.
C11_ExitStatus ==
    (call.phase \in {"returned", "raised"} /\ call.argc = 4) =>
        /\ (~call.mirror_root \/ ~call.sources_root) =>
              (call.phase = "returned" /\ call.result.status # 0)
        /\ (call.phase = "returned" /\ call.result.status = 0) => call.processed # <<>>

\* C12: after a run, a required library whose source directory exists and
\* holds no matching source file has no cache directory, no entry in any
\* project's output tree, and a 'not found' warning in the warnings list.
C12_EmptyLibrarySkipped ==
    RunComplete =>
        \A lib \in RequiredLibs :
            (lib \in DOMAIN sources /\ SourceObjects(sources[lib]) = {}) =>
                /\ ~Lexists(fs, <<CacheName, lib>>)
                /\ \A n \in ProjectNames :
                      ~Lexists(fs, ChildPath(ChildPath(<<>>, n), lib))
                /\ [warn |-> "pbl_not_found", pbl |-> lib] \in Range(run.warnings)

\* the text has a line that declares a member, or one that closes a
\* member of the kind
HasWrapperLine(text, kind) ==
    \E i \in 1..Len(text) :
        \/ MEMBER_START_RE(text[i]).ok
        \/ MatchEndKind(LStripLine(text[i]), {kind}).ok

\* C13: strip_member_wrappers returns unchanged a body that has no
\* declaration line and no closing 'end <kind>' line, such as the output
\* of a previous stripping.
C13_StripIdempotent ==
    (split.done /\ split.again /\ ~HasWrapperLine(split.first, split.kind)) =>
        split.second = split.first

\* C14: a failed copy of one library entry never ends the run: the run
\* goes on to the remaining entries and projects and saves the manifest.
C14_CopyFailureIsLocal == ~(run.status = "raised" /\ run.error = "FileExistsError")

\* the items of the assembly that the run has gone through
AssembledItems ==
    LET all == AssemblyItems(SortByLowerKey(MapKeys(run.pbw_map)), run.pbw_map)
    IN  SubSeq(all, 1, Len(all) - Len(run.todo))

InAssembly == pc = "assemble" \/ (pc = "idle" /\ run.status = "done")

EntryOf(item) == ChildPath(ChildPath(<<>>, item.pbw), sanitize(Stem(item.pbl)))

CacheOf(item) == <<CacheName, sanitize(Stem(item.pbl))>>

\* C15: a listed library without a cache directory gets no entry, every
\* other library entry gone through is there, and a run in which a listed
\* library has no cache directory is not ended in the assembly.
C15_MissingCacheSkipped ==
    /\ InAssembly =>
          \A i \in 1..Len(AssembledItems) :
              AssembledItems[i].op = "pbl" =>
                  (Exists(fs, EntryOf(AssembledItems[i]))
                      <=> Exists(fs, CacheOf(AssembledItems[i])))
    /\ (run.status = "raised" /\ run.error = "FileExistsError") =>
          \A i \in 1..Len(AssembledItems) :
              AssembledItems[i].op = "pbl" => Exists(fs, CacheOf(AssembledItems[i]))

\* the text of the one source object, and the fallback artifact written for it
ObjectText == sources[BuildLib][ObjectPath].text

ObjectArtifact == <<CacheName, BuildLib, <<"a">>, FallbackArtifact>>

\* a line that names the keyword 'function' and does not close a member
FunctionLine(line) ==
    /\ \E i \in 1..Len(line) : Lower(line[i]) = "function"
    /\ ~END_ANY_RE(line).ok

\* the last line that closes a member, 0 when there is none
LastEnd(text) ==
    LET ends == {i \in 1..Len(text) : END_ANY_RE(text[i]).ok}
    IN  IF ends = {} THEN 0 ELSE CHOOSE i \in ends : \A j \in ends : j <= i

\* the nearest 'function' line above line n, 0 when there is none
OpenerAbove(text, n) ==
    LET opens == {j \in 1..(n - 1) : FunctionLine(text[j])}
    IN  IF opens = {} THEN 0 ELSE CHOOSE j \in opens : \A k \in opens : k <= j

\* no line starts a member, the last closing line is an 'end function' and
\* a 'function' line stands above it
MalformedSingleMember(text) ==
    /\ \A i \in 1..Len(text) : ~MEMBER_START_RE(text[i]).ok
    /\ LastEnd(text) > 0
    /\ Lower(END_ANY_RE(text[LastEnd(text)]).kind) = "function"
    /\ OpenerAbove(text, LastEnd(text)) > 0

\* C16: for an object text with a malformed opening line and an 'end
\* function' line, the cache builder writes as fallback artifact the body
\* between the nearest 'function' line above the last 'end function' line
\* and that line (compared up to surrounding white space).
C16_FallbackRecoversBody ==
    (pc = "built" /\ MalformedSingleMember(ObjectText)) =>
        /\ Exists(fs, ObjectArtifact)
        /\ StripText(fs[ObjectArtifact].text) =
              StripText(JoinLines(SubSeq(ObjectText,
                                         OpenerAbove(ObjectText, LastEnd(ObjectText)) + 1,
                                         LastEnd(ObjectText) - 1)))

\* the identifiers of a member's opening line that follow its kind keyword
SignatureIdents(line) ==
    LET words == IdentTokens(line)
        at == CHOOSE k \in 1..Len(words) :
                  /\ Len(words[k]) = 1
                  /\ Lower(words[k][1]) \in Kinds
                  /\ \A j \in 1..(k - 1) : ~(Len(words[j]) = 1 /\ Lower(words[j][1]) \in Kinds)
    IN  [kind |-> Lower(words[at][1]), idents |-> SubSeq(words, at + 1, Len(words))]

\* '<kind>_<identifier>.txt' as the claim names a block opened by the line
ClaimedName(line) ==
    LET s == SignatureIdents(line)
        identifier == IF s.kind = "function" /\ Len(s.idents) >= 2
                      THEN s.idents[2] ELSE s.idents[1]
    IN  <<s.kind, "_">> \o identifier \o <<".txt">>

OfTestText ==
    << <<"function", " ", "void", " ", "of", "_", "test", "(", "integer", " ", "a", ")">>,
       <<" ", " ", "return">>,
       <<"end", " ", "function">> >>

LastNonBlank(lines) ==
    LET full == {i \in 1..Len(lines) : ~IsBlankLine(lines[i])}
    IN  IF full = {} THEN 0 ELSE CHOOSE i \in full : \A j \in full : j <= i

ClosesKind(line, kind) == MatchEndKind(LStripLine(line), {kind}).ok

\* what the claim lets through: the lines after the first up to the last
\* non-blank one, without that one when it closes the kind and then
\* without the blank lines before it
ClaimedBody(member_text, kind) ==
    LET rest == Tail(member_text)
        n == LastNonBlank(rest)
        kept == IF n > 0 /\ ClosesKind(rest[n], kind)
                THEN SubSeq(rest, 1, LastNonBlank(SubSeq(rest, 1, n - 1)))
                ELSE SubSeq(rest, 1, n)
    IN  IF kept = <<>> THEN EmptyText ELSE AddNewline(kept)

\* C18: strip_member_wrappers removes the first line, removes the last
\* non-blank line when and only when it is an 'end <kind>' of the
\* member's kind, removes the blank lines left at the end, and keeps every
\* other line as it is and in order; without a closing line the body ends
\* at its last non-blank line.
C18_StripExact ==
    split.done => split.first = ClaimedBody(content, split.kind)

\* a block of three lines whose closing line is removed and whose body
\* line is kept with its indentation
C18_Witness ==
    /\ split.done
    /\ Len(content) = 3
    /\ ClosesKind(content[3], split.kind)
    /\ content[2] # LStripLine(content[2])
    /\ split.first = <<content[2], <<>>>>

\* the kind closed by the last closing line of the text
LastEndKind(text) == Lower(END_ANY_RE(text[LastEnd(text)]).kind)

\* the nearest line above the last closing line that opens a member of
\* its kind (global, public, private or protected allowed), 0 when none
NearestOpener(text) ==
    LET opens == {j \in 1..(LastEnd(text) - 1) : StartOfKind(text[j], LastEndKind(text))}
    IN  IF opens = {} THEN 0 ELSE CHOOSE j \in opens : \A k \in opens : k <= j

\* the lines strictly between that opener and the closing line
LinesBetween(text) == SubSeq(text, NearestOpener(text) + 1, LastEnd(text) - 1)

NothingToExtract(text) == LastEnd(text) = 0 \/ NearestOpener(text) = 0

\* C19 as stated: None exactly when there is no closing line or no opener
\* of its kind above it; otherwise exactly the lines strictly between the
\* two, none of them altered (with or without a final newline).
C19_ExactLines ==
    split.done =>
        /\ ~split.cleaned.found <=> NothingToExtract(content)
        /\ split.cleaned.found =>
              split.cleaned.body \in {JoinLines(LinesBetween(content)),
                                      AddNewline(LinesBetween(content))}

\* C19 amended: ... otherwise the lines strictly between the two with the
\* white space at the two ends of that body trimmed (blank lines at either
\* end, the indentation of its first line, trailing blanks of its last
\* line), and a final newline when the trimmed body is not empty.
C19_LinesUpToTrim ==
    split.done =>
        /\ ~split.cleaned.found <=> NothingToExtract(content)
        /\ split.cleaned.found =>
              split.cleaned.body =
                  (IF StripText(JoinLines(LinesBetween(content))) = EmptyText
                   THEN EmptyText
                   ELSE AddNewline(StripText(JoinLines(LinesBetween(content)))))

\* a body line is returned without its indentation
C19_Witness ==
    /\ split.done
    /\ split.cleaned.found
    /\ Len(content) = 3
    /\ LinesBetween(content) = <<content[2]>>
    /\ content[2] # StripLine(content[2])
    /\ split.cleaned.body = <<StripLine(content[2]), <<>>>>

\* the last line of a member block, before the newline that ends the block
ClosingLine(member_text) == member_text[Len(member_text) - 1]

\* C20: in every member block that ends with a closing 'end <kind>' line,
\* the kind of the closing line is the kind of the block's opening line.
C20_ClosingKindMatches ==
    split.done =>
        \A i \in 1..Len(split.members) :
            (/\ Len(split.members[i].text) >= 3
             /\ MEMBER_END_RE(ClosingLine(split.members[i].text)).ok) =>
                Lower(MEMBER_END_RE(ClosingLine(split.members[i].text)).kind)
                    = Lower(MEMBER_START_RE(Head(split.members[i].text)).kind)

\* the fingerprint that the manifest in memory stores for the library is the
\* one its source directory has now (for some order of the walk)
StoredFingerprintCurrent(lib) ==
    /\ MapHas(run.manifest.pbls, lib)
    /\ \E walk \in WalkOrders(sources[lib]) :
          MapGet(run.manifest.pbls, lib).fingerprint
              = compute_pbl_fingerprint(sources[lib], walk).fingerprint

\* the step of the build loop, for a manifest whose "pbls" is a map
BuildStepAsClaimed ==
    (pc = "build" /\ run.manifest.pbls # NotMap) =>
        \A lib \in Range(required_pbls(run.pbw_map)) :
            /\ lib \in run'.built =>
                  /\ lib \in DOMAIN sources
                  /\ ~StoredFingerprintCurrent(lib) \/ ~Exists(fs, <<CacheName, lib>>)
            /\ (lib \in DOMAIN sources /\ ~Exists(fs, <<CacheName, lib>>)) =>
                  lib \in run'.built

\* C21: the build loop of main calls build_cache_for_pbl for a required
\* library only when the new fingerprint differs from the stored one or the
\* library's cache directory is absent, and always when the cache directory
\* is absent and the source directory exists.
C21_BuildOnlyWhenNeeded == [][BuildStepAsClaimed]_vars

\* a run has rebuilt one library although the manifest it loaded stored the
\* fingerprint the library still has (its cache directory was absent), and
\* has skipped another
C21_Witness ==
    /\ pc = "assemble"
    /\ hist.loaded.shape = "object"
    /\ hist.loaded.pbls \notin {Missing, NotMap}
    /\ \E lib \in run.built :
          /\ MapHas(hist.loaded.pbls, lib)
          /\ MapGet(hist.loaded.pbls, lib) = MapGet(run.manifest.pbls, lib)
    /\ \E lib \in (RequiredLibs \cap DOMAIN sources) \ run.built :
          Exists(fs, <<CacheName, lib>>)

\* the member blocks of the one source object, in file order
ObjectMembers == split_object_members(ObjectText).members

ObjectDir == <<CacheName, BuildLib, <<"a">>>>

\* the body of a member block: the block without its opening line and
\* without the closing line of its own kind
MemberBody(member) ==
    strip_member_wrappers(member.text, Lower(MEMBER_START_RE(member.text[1]).kind))

\* member j is the last of two or more members of its artifact name
LastOfSeveral(j) ==
    /\ \E i \in 1..(j - 1) : ObjectMembers[i].fname = ObjectMembers[j].fname
    /\ \A k \in (j + 1)..Len(ObjectMembers) : ObjectMembers[k].fname # ObjectMembers[j].fname

\* C22: when two or more members of one object have the same artifact name,
\* the artifact that build_cache_for_pbl leaves holds the stripped body of
\* the last of them in file order.
C22_LastDuplicateWins ==
    pc = "built" =>
        \A j \in 1..Len(ObjectMembers) :
            LastOfSeveral(j) =>
                /\ Exists(fs, ChildPath(ObjectDir, ObjectMembers[j].fname))
                /\ fs[ChildPath(ObjectDir, ObjectMembers[j].fname)]
                      = TextFile(MemberBody(ObjectMembers[j]))

\* three members, the first and the last of one name with different bodies,
\* between them one whose name differs in letter case only
C22_Witness ==
    /\ pc = "built"
    /\ Len(ObjectMembers) = 3
    /\ ObjectMembers[1].fname = ObjectMembers[3].fname
    /\ ObjectMembers[2].fname # ObjectMembers[1].fname
    /\ LowerName(ObjectMembers[2].fname) = LowerName(ObjectMembers[1].fname)
    /\ MemberBody(ObjectMembers[1]) # MemberBody(ObjectMembers[3])
    /\ fs[ChildPath(ObjectDir, ObjectMembers[3].fname)] = TextFile(MemberBody(ObjectMembers[3]))

\* the splitter finds no member in the text and the fallback extractor
\* returns None for it
NothingRecovered(text) ==
    /\ split_object_members(text).members = <<>>
    /\ ~extract_single_member_body_if_any(text).found

\* C23: after build_cache_for_pbl, every source object in which the
\* splitter finds no member and the fallback extractor recovers nothing has
\* its object directory in the cache, with the fallback artifact object.txt
\* holding the object's whole text.
C23_VerbatimFallback ==
    pc = "built" =>
        \A p \in SourceObjects(sources[BuildLib]) :
            NothingRecovered(sources[BuildLib][p].text) =>
                LET artifact == <<CacheName, BuildLib, sanitize(Stem(p)), FallbackArtifact>>
                IN  /\ Exists(fs, artifact)
                    /\ fs[artifact] = TextFile(read_source_file(sources[BuildLib][p]))

\* what the tree holds at a path: the node and everything below it, by the
\* path relative to it
SubtreeAt(tree, p) ==
    [rel \in {SubSeq(q, Len(p) + 1, Len(q)) : q \in {r \in DOMAIN tree : IsPrefix(p, r)}}
        |-> tree[p \o rel]]

\* the link of the entry is not created: not on Windows, or mklink fails
LinkFails(item) ==
    LET cleared == IF Exists(fs, EntryOf(item)) THEN ensure_removed(fs, EntryOf(item)) ELSE fs
    IN  ~try_create_junction(cleared, nt, mklink, EntryOf(item), CacheOf(item)).created

\* the step of the assembly for a library entry whose cache directory exists
\* and whose link is not created
CopyStepAsClaimed ==
    (/\ pc = "assemble"
     /\ run.todo # <<>>
     /\ Head(run.todo).op = "pbl"
     /\ Exists(fs, CacheOf(Head(run.todo)))
     /\ LinkFails(Head(run.todo))) =>
        SubtreeAt(fs', EntryOf(Head(run.todo))) = SubtreeAt(fs, CacheOf(Head(run.todo)))

\* C24: whenever the link of a library entry is not created, the assembly
\* step leaves at the entry's path exactly a copy of the library's cache
\* directory, and nothing of what was at that path before.
C24_CopyReplacesEntry == [][CopyStepAsClaimed]_vars

(***************************************************************************)
(* main(), the body of the loop for one version as one function of the     *)
(* output tree it finds, the mirror, the sources and the walk orders:      *)
(* lines 565-649 from the first to the last, the steps of the actions      *)
(* above one after the other.  [raised, tree].                             *)
(***************************************************************************)
RECURSIVE AssembleLoop(_, _, _, _, _)
AssembleLoop(st, items, pbw_map, nt_os, linkable) ==
    IF items = <<>> \/ st.raised THEN st
    ELSE LET item == Head(items)
         IN  IF item.op = "pbw"
             THEN AssembleLoop(AssemblePbw(st.tree, st.manifest, item.pbw,
                                           MapGet(pbw_map, item.pbw)),
                               Tail(items), pbw_map, nt_os, linkable)
             ELSE LET r == AssemblePbl(st.tree, nt_os, linkable, item.pbw, item.pbl)
                  IN  AssembleLoop([raised |-> r.raised, tree |-> r.tree,
                                    manifest |-> st.manifest],
                                   Tail(items), pbw_map, nt_os, linkable)

main_assemble(b, pbw_map, nt_os, linkable) ==
    IF b.raised THEN [raised |-> TRUE, tree |-> b.tree]
    ELSE LET a == AssembleLoop([raised |-> FALSE, tree |-> b.tree, manifest |-> b.manifest],
                               AssemblyItems(SortByLowerKey(MapKeys(pbw_map)), pbw_map),
                               pbw_map, nt_os, linkable)
         IN  IF a.raised THEN [raised |-> TRUE, tree |-> a.tree]
             ELSE [raised |-> FALSE,
                   tree |-> save_json(a.tree, ManifestPath,
                                      JsonObject(a.manifest.pbls, a.manifest.pbws))]

main_version(tree, mirr, srcs, walks, nt_os, linkable) ==
    LET made == Mkdirs(tree, <<CacheName>>)
        loaded == load_json(made, ManifestPath)
        pbw_map == discover_pbw_to_pbls(mirr)
    IN  IF loaded.shape = "list" THEN [raised |-> TRUE, tree |-> made]
        ELSE main_assemble(
                 BuildLoop([tree |-> cleanup_not_in_mirror(made, pbw_map),
                            manifest |-> [pbls |-> IF loaded.pbls = Missing THEN EmptyMap
                                                   ELSE loaded.pbls,
                                          pbws |-> IF loaded.pbws = Missing THEN EmptyMap
                                                   ELSE loaded.pbws],
                            warnings |-> <<>>, built |-> {}, raised |-> FALSE],
                           SortByLowerKey(required_pbls(pbw_map)), srcs, walks),
                 pbw_map, nt_os, linkable)

\* an output root that no run has written to
EmptyTree == [q \in {} |-> DirNode]

\* what one run on an empty output root leaves for the mirror and the
\* sources as they are now
CleanBuild ==
    main_version(EmptyTree, mirror, sources,
                 CHOOSE walks \in WalkChoices(sources) : TRUE, nt, mklink)

\* the manifest a tree holds, and what it says whatever the order of its keys
ManifestOf(tree) == tree[ManifestPath].json

\* a value under "pbls" or "pbws": the set of its key-value pairs when it
\* is a JSON object, the value as it is otherwise
MapContent(map) ==
    IF map = NotMap THEN [object |-> FALSE]
    ELSE [object |-> TRUE, pairs |-> Range(map.entries)]

ManifestContent(m) == [pbls |-> MapContent(m.pbls), pbws |-> MapContent(m.pbws)]

\* C25: a run that ends with the manifest content that a run on an empty
\* output root ends with for the same mirror and sources has written the
\* keys in the same order as that run.
C25_DeterministicKeyOrder ==
    (RunComplete /\ ManifestContent(ManifestOf(fs)) = ManifestContent(ManifestOf(CleanBuild.tree)))
        => ManifestOf(fs) = ManifestOf(CleanBuild.tree)

\* the sum of the sizes of a set of files of a directory
RECURSIVE SizeOfFiles(_, _)
SizeOfFiles(dir, paths) ==
    IF paths = {} THEN 0
    ELSE LET p == CHOOSE q \in paths : TRUE
         IN  dir[p].size + SizeOfFiles(dir, paths \ {p})

\* C26: file_count is the number of distinct source files of the library
\* directory and total_size the sum of their sizes, each file counted once
\* whatever patterns of EXTS its name matches.
C26_AggregatesCountOnce ==
    fpOut.done =>
        /\ fpOut.a.file_count = Cardinality(SourceObjects(fpIn.dirA))
        /\ fpOut.a.total_size = SizeOfFiles(fpIn.dirA, SourceObjects(fpIn.dirA))

\* C27: after build_cache_for_pbl the library's cache directory holds one
\* object directory for each source file of the library: no two distinct
\* source files share a directory.
C27_OneDirPerObject ==
    pc = "built" =>
        Cardinality(SubDirs(fs, <<CacheName, BuildLib>>))
            = Cardinality(SourceObjects(sources[BuildLib]))

\* the cache and the project trees: the tree without the manifest file
WithoutManifest(tree) == Restrict(tree, DOMAIN tree \ {ManifestPath})

\* C28: when every source change so far has altered a file's path, size or
\* modification time, the cache and the project trees that a complete run
\* leaves equal what one run on an empty output root leaves for the current
\* mirror and sources.
C28_IncrementalEqualsClean ==
    (RunComplete /\ hist.visible) =>
        WithoutManifest(fs) = WithoutManifest(CleanBuild.tree)

\* C29: after build_cache_for_pbl every object directory of the library's
\* cache holds only the artifacts of the object's current text: the header
\* artifact and the member artifacts, or the fallback artifact.
C29_NoStaleArtifacts ==
    pc = "built" =>
        \A obj \in SubDirs(fs, <<CacheName, BuildLib>>) :
            ChildNames(fs, <<CacheName, BuildLib, obj>>)
                \subseteq ExpectedArtifacts(sources[BuildLib], obj)

\* C30: after a complete run no project's tree has an entry for a listed
\* library whose source directory is missing.
C30_NoEntryWithoutSources ==
    RunComplete =>
        \A n \in ProjectNames : \A lib \in ListedLibs(n) :
            lib \notin DOMAIN sources =>
                ~Lexists(fs, ChildPath(ChildPath(<<>>, n), lib))

\* a step of cleanup_not_in_mirror leaves the manifest file, during the
\* project-level parts the whole cache directory, the cache directory of
\* every library that a project of the map lists, every project directory
\* of the map and every library entry that its list names
CleanupKeepsCurrent ==
    pc \in {"clean1", "clean2", "clean3"} =>
        /\ SubtreeAt(fs', ManifestPath) = SubtreeAt(fs, ManifestPath)
        /\ pc \in {"clean1", "clean2"} =>
              SubtreeAt(fs', <<CacheName>>) = SubtreeAt(fs, <<CacheName>>)
        /\ \A lib \in RequiredStems(run.pbw_map) :
              SubtreeAt(fs', <<CacheName, lib>>) = SubtreeAt(fs, <<CacheName, lib>>)
        /\ \A i \in 1..Len(run.pbw_map.entries) :
              LET pbw_dir == ChildPath(<<>>, run.pbw_map.entries[i][1])
              IN  /\ Lexists(fs, pbw_dir) => Lexists(fs', pbw_dir)
                  /\ \A lib \in PblStems(run.pbw_map.entries[i][2]) :
                        SubtreeAt(fs', ChildPath(pbw_dir, lib))
                            = SubtreeAt(fs, ChildPath(pbw_dir, lib))

\* C31: cleanup_not_in_mirror deletes only what is stale: it leaves the
\* manifest file, the cache directory during the project-level cleanup,
\* the cache of every library still listed, and every project directory
\* and library entry of the current map, whatever the project names are.
C31_CleanupDeletesOnlyStale == [][CleanupKeepsCurrent]_vars

(***************************************************************************)
(* extract_selects.py: extract_selects_pb().  The text is taken as the     *)
(* sequence of lines str.splitlines() gives, which may be empty.           *)
(***************************************************************************)

\* select_re.search(stripped): (?i)\bselect\b, the word "select" with no
\* word character on either side
select_re(stripped) ==
    \E i \in 1..Len(stripped) :
        /\ Lower(stripped[i]) = "select"
        /\ (i = 1 \/ ~IsWord(stripped[i - 1]))
        /\ (i = Len(stripped) \/ ~IsWord(stripped[i + 1]))

\* stripped.endswith(";") or re.match(r"(?i)^end\b", stripped)
EndsBlock(stripped) ==
    /\ stripped # <<>>
    /\ \/ stripped[Len(stripped)] = ";"
       \/ /\ Lower(Head(stripped)) = "end"
          /\ (Len(stripped) = 1 \/ ~IsWord(stripped[2]))

\* "select" in s.lower(): the tokens whose lower-case text holds "select"
HoldsSelect(s) ==
    \E i \in 1..Len(s) : \E j \in 1..Len(s[i]) :
        Lower(s[i][j]) \in {"select", "selected"}

SelectsInit == [selects |-> <<>>, buf |-> <<>>, inside |-> FALSE]

\* selects.append("\n".join(buf).strip()); buf = []
FlushSelect(st) ==
    [st EXCEPT !.selects = Append(@, StripText(JoinLines(st.buf))),
               !.buf = <<>>]

\* The loop body with the restart on a "select" line left out.
SelectsLineNoRestart(st, line) ==
    LET stripped == StripLine(line)
        opened == IF select_re(stripped) THEN [st EXCEPT !.inside = TRUE] ELSE st
        added == [opened EXCEPT !.buf = Append(@, RStripLine(line))]
    IN  IF ~opened.inside THEN opened
        ELSE IF EndsBlock(stripped)
             THEN [FlushSelect(added) EXCEPT !.inside = FALSE]
             ELSE added

\* One pass of the loop over text.splitlines()
SelectsLine(st, line) ==
    LET stripped == StripLine(line)
        opened == IF select_re(stripped)
                  THEN [(IF st.inside /\ st.buf # <<>> THEN FlushSelect(st) ELSE st)
                            EXCEPT !.inside = TRUE]
                  ELSE st
        added == [opened EXCEPT !.buf = Append(@, RStripLine(line))]
    IN  IF ~opened.inside THEN opened
        ELSE IF EndsBlock(stripped)
             THEN [FlushSelect(added) EXCEPT !.inside = FALSE]
             ELSE added

RECURSIVE SelectsLoop(_, _)
SelectsLoop(st, lines) ==
    IF lines = <<>> THEN st
    ELSE SelectsLoop(SelectsLine(st, Head(lines)), Tail(lines))

extract_selects_pb(text) ==
    LET st == SelectsLoop(SelectsInit, text)
        selects == IF st.inside /\ st.buf # <<>> THEN FlushSelect(st).selects
                   ELSE st.selects
    IN  SelectSeq(selects, HoldsSelect)

(***************************************************************************)
(* SpecSelects: extract_selects_pb applied to every text of at most        *)
(* MaxSelectLines lines drawn from SelectLines.                            *)
(***************************************************************************)
MaxSelectLines == 4

SelectLines ==
    { <<>>,
      <<"x">>,
      <<"select", " ", "x">>,
      <<" ", "SELECT", " ", "x", ";", " ">>,
      <<"x", ";">>,
      <<"x", ";", "x">>,
      <<" ", "END", " ", "x">>,
      <<"end">>,
      <<"endif">>,
      <<"selected">>,
      <<"x", "(", "select", ")">>,
      <<"end", " ", "select">>,
      <<"x", "_", "select">> }

SelectTexts == SeqsUpTo(SelectLines, MaxSelectLines)

SelectsStart ==
    /\ content \in SelectTexts
    /\ split = NoResult
    /\ fpIn = <<>>
    /\ fpOut = NoResult
    /\ nt = FALSE
    /\ mklink = FALSE
    /\ mirror = <<>>
    /\ sources = <<>>
    /\ fs = <<>>
    /\ pc = "off"
    /\ run = [status |-> "none"]
    /\ hist = <<>>
    /\ call = NoCall

DoSelects ==
    /\ ~split.done
    /\ split' = [done |-> TRUE, selects |-> extract_selects_pb(content)]
    /\ UNCHANGED <<content, fpIn, fpOut, nt, mklink, mirror, sources, fs, pc, run, hist, call>>

SelectsNext == DoSelects

SpecSelects == SelectsStart /\ [][SelectsNext]_vars

\* The input lines that hold the keyword, in order, and where the block
\* opened at line i stops: at the first line from i on that ends with ";"
\* or starts with the word "end", at the line before the next keyword line,
\* or at the last line.
SelectLineAt(i) == select_re(StripLine(content[i]))

SelectIdx == {i \in 1..Len(content) : SelectLineAt(i)}

NthSelect(k) ==
    CHOOSE i \in SelectIdx : Cardinality({j \in SelectIdx : j < i}) = k - 1

BlockEnd(i) ==
    LET stops == {j \in i..Len(content) :
                     \/ EndsBlock(StripLine(content[j]))
                     \/ j = Len(content)
                     \/ SelectLineAt(j + 1)}
    IN  CHOOSE j \in stops : \A m \in stops : j <= m

ClaimedBlock(i) ==
    StripText([j \in 1..(BlockEnd(i) - i + 1) |-> RStripLine(content[i + j - 1])])

\* C32: extract_selects_pb returns one block for each line holding the
\* keyword "select", in input order; the block of such a line runs from it
\* to the first line ending with ";" or starting with the word "end", the
\* line before the next keyword line, or the end of the input, whichever
\* comes first (trailing white space removed); its first line is its only
\* keyword line; a block still open at the end of the input is returned.
C32_OneBlockPerSelectLine ==
    split.done =>
        /\ Len(split.selects) = Cardinality(SelectIdx)
        /\ \A k \in 1..Len(split.selects) :
              LET block == split.selects[k]
              IN  /\ block = ClaimedBlock(NthSelect(k))
                  /\ select_re(StripLine(block[1]))
                  /\ \A j \in 2..Len(block) : ~select_re(StripLine(block[j]))

\* Three keyword lines: the first block is cut by the next keyword line,
\* the second runs over two lines to a ";", the third is open at the end.
C32_Witness ==
    /\ split.done
    /\ Len(content) = 4
    /\ SelectIdx = {1, 2, 4}
    /\ ~EndsBlock(StripLine(content[1]))
    /\ EndsBlock(StripLine(content[3]))
    /\ ~EndsBlock(StripLine(content[4]))
    /\ Len(split.selects) = 3
    /\ Len(split.selects[2]) = 2

=============================================================================
